---- MODULE Spec2Model ----
(***************************************************************************)
(* Message ingestion pipeline of telegram-chat-html-exporter:              *)
(*   MessageFilter            (src/src/services/message_filter.py)         *)
(*   MessageProcessor         (src/src/services/message_processor.py)      *)
(*   MediaProcessor           (src/src/services/media_processor.py)        *)
(*                                                                         *)
(* Strings are sequences of one-character strings.  An html_content is a  *)
(* sequence of fragments <<kind, id>>: the rendered text of message id,    *)
(* the media HTML of message id, or the "<br>" separator.                  *)
(***************************************************************************)
EXTENDS Integers, Sequences, FiniteSets, TLC

\* ------------------------------------------------------------------ bounds
MaxTextLen == 2
MaxMsgs == 3
MaxGroups == 2
MaxConcurrent == 2
MaxCalls == 3
MaxTopics == 2
MaxChatMsgs == 2
MaxFileSizeMb == 1
MaxReplyId == 2
MaxHrefLen == 6

\* ------------------------------------------------------------- variables
VARIABLES
    config,            \* ExportConfig: filter sets, case flag, max_concurrent_downloads
    filter_message,    \* the message of the last should_include_raw_message call
    filter_result,     \* and what it returned
    pc,                \* position inside process_messages_streaming
    messages_iter,     \* what the message iterator has still to deliver
    all_messages,
    grouped_messages,  \* dict grouped_id -> list, as <<[key, val]>> in insertion order
    single_messages,
    filtered_grouped,
    filtered_single,
    excluded_count,
    filtered_messages,
    all_items,
    item_idx,          \* number of items the text pass has processed
    topics,            \* topic id -> TopicData
    media_messages,
    batch_start,       \* the batch loop's i
    media_tasks,       \* every task created in the media pass, in creation order
    completed_count,
    download_semaphore, \* free permits of MediaProcessor.download_semaphore
    downloaded_files,  \* MediaProcessor.downloaded_files
    _global_media_counter,
    media_call,        \* the process_media call in progress (retry wrapper included)
    media_log,         \* the process_media calls that have ended, oldest first
    export_pc,         \* position inside ExportOrchestrator.export_chat
    export_attempt,    \* `attempt` of the retry wrapper around export_chat
    retry_attempt,     \* `attempt` of the wrapper around resolve_chat / load_forum_topics
    is_forum,
    forum_response,    \* response.topics of GetForumTopicsRequest (<<>>: none)
    export_topics,     \* export_chat's `topics`, a dict as <<[key, val]>>
    topic_idx,         \* number of topics the forum loop has taken
    current_topic_id,  \* the topic_id argument of process_messages_streaming
    processed_topics,
    chat_size,         \* number of messages of the chat handed to iterators so far
    fetched,           \* the topic_id arguments iter_messages was called with (0: None)
    filter_log,        \* the filtered_message_count of every filtering, as logged
    render_log,        \* the calls of HTMLRenderer, with what the template was given
    saved,             \* the documents save_export has written
    export_result,     \* <<>> or <<the ExportResult returned>>
    message_renderer,  \* <<>> or <<the HTMLMessageRenderer export_chat created>>
    msg_text,          \* msg.text of the message given to render_message
    html_text,         \* render_message's html_text
    transform_calls,   \* the calls of _transform_telegram_links made so far
    retry_func,        \* the operation a wrapper of retry_on_error was called for
    retry_pc,          \* position inside that wrapper
    retry_calls,       \* how each call of the operation ended, oldest first
    retry_slept,       \* the delays the wrapper has slept, oldest first
    retry_result       \* <<>> or <<how the wrapper ended>>

vars == <<config, filter_message, filter_result, pc, messages_iter, all_messages,
          grouped_messages, single_messages, filtered_grouped, filtered_single,
          excluded_count, filtered_messages, all_items, item_idx, topics,
          media_messages, batch_start, media_tasks, completed_count,
          download_semaphore, downloaded_files, _global_media_counter,
          media_call, media_log, export_pc, export_attempt, retry_attempt, is_forum,
          forum_response,
          export_topics, topic_idx, current_topic_id, processed_topics, chat_size,
          fetched, filter_log,
          render_log, saved, export_result,
          message_renderer, msg_text, html_text, transform_calls,
          retry_func, retry_pc, retry_calls, retry_slept, retry_result>>

\* a wrapper of retry_on_error looked at on its own
retry_vars == <<retry_func, retry_pc, retry_calls, retry_slept, retry_result>>

\* the message renderer and the text it works on
link_vars == <<message_renderer, msg_text, html_text, transform_calls>>

\* the state of the MediaProcessor besides its semaphore
media_state_vars == <<downloaded_files, _global_media_counter>>

\* what only a direct call of MediaProcessor.process_media writes
media_api_vars == <<media_call, media_log>>

\* the state of a run of ExportOrchestrator.export_chat, with the message
\* renderer the run has created
export_vars == <<export_pc, export_attempt, retry_attempt, is_forum, forum_response,
                 export_topics, topic_idx, current_topic_id, processed_topics,
                 chat_size, fetched, filter_log, render_log, saved, export_result,
                 link_vars, retry_vars>>

pipeline_vars == <<pc, messages_iter, all_messages,
          grouped_messages, single_messages, filtered_grouped, filtered_single,
          excluded_count, filtered_messages, all_items, item_idx, topics,
          media_messages, batch_start, media_tasks, completed_count,
          download_semaphore>>

\* ------------------------------------------------------------ constants
\* Constants.DEFAULT_MAX_FILE_SIZE_MB
DEFAULT_MAX_FILE_SIZE_MB == 50

\* ------------------------------------------------------------ strings
Alphabet == {"a", "A", "b"}

\* all strings over Alphabet of length at most n
StringsUpTo(n) == UNION {[1..k -> Alphabet] : k \in 0..n}

\* str.lower() on one character, and on a string
LowerChar(c) == IF c = "A" THEN "a" ELSE c

Lower(s) == [i \in 1..Len(s) |-> LowerChar(s[i])]

\* Python's `sub in text` on strings
IsSubstring(sub, text) ==
    \E i \in 0..(Len(text) - Len(sub)) :
        \A j \in 1..Len(sub) : text[i + j] = sub[j]

\* ------------------------------------------------------------ MessageFilter
\* the mutant drops the lower-casing of the substring
ContainsAnyFoldTextOnly(text, substrings) ==
    IF text = <<>> \/ substrings = {} THEN FALSE
    ELSE LET search_text == IF config.filter_case_sensitive THEN text ELSE Lower(text)
         IN \E substring \in substrings : IsSubstring(substring, search_text)

_contains_any_substring(text, substrings) ==
    IF text = <<>> \/ substrings = {} THEN FALSE
    ELSE LET search_text == IF config.filter_case_sensitive THEN text ELSE Lower(text)
         IN \E substring \in substrings :
               LET search_substring ==
                       IF config.filter_case_sensitive THEN substring ELSE Lower(substring)
               IN IsSubstring(search_substring, search_text)

\* mutant: the filters are applied to service messages as well
ShouldIncludeNoServiceBypass(message) ==
    IF config.filter_include_substrings = {} /\ config.filter_exclude_substrings = {}
    THEN TRUE
    ELSE IF message.message = <<>>
    THEN config.filter_include_substrings = {}
    ELSE IF config.filter_include_substrings # {}
            /\ ~_contains_any_substring(message.message, config.filter_include_substrings)
    THEN FALSE
    ELSE IF config.filter_exclude_substrings # {}
            /\ _contains_any_substring(message.message, config.filter_exclude_substrings)
    THEN FALSE
    ELSE TRUE

\* mutant: a textless message is admitted whatever the include set is
ShouldIncludeTextlessAdmitted(message) ==
    IF message.action THEN TRUE
    ELSE IF config.filter_include_substrings = {} /\ config.filter_exclude_substrings = {}
    THEN TRUE
    ELSE IF message.message = <<>>
    THEN TRUE
    ELSE IF config.filter_include_substrings # {}
            /\ ~_contains_any_substring(message.message, config.filter_include_substrings)
    THEN FALSE
    ELSE IF config.filter_exclude_substrings # {}
            /\ _contains_any_substring(message.message, config.filter_exclude_substrings)
    THEN FALSE
    ELSE TRUE

should_include_raw_message(message) ==
    IF message.action THEN TRUE
    ELSE IF config.filter_include_substrings = {} /\ config.filter_exclude_substrings = {}
    THEN TRUE
    ELSE IF message.message = <<>>
    THEN config.filter_include_substrings = {}
    ELSE IF config.filter_include_substrings # {}
            /\ ~_contains_any_substring(message.message, config.filter_include_substrings)
    THEN FALSE
    ELSE IF config.filter_exclude_substrings # {}
            /\ _contains_any_substring(message.message, config.filter_exclude_substrings)
    THEN FALSE
    ELSE TRUE

\* ------------------------------------------------ filter specification
\* the substrings a filter set is drawn from (the empty substring included)
Substrings == {<<>>, <<"a">>, <<"A">>, <<"b">>, <<"a", "b">>}

FilterConfigs ==
    [filter_include_substrings : SUBSET Substrings,
     filter_exclude_substrings : SUBSET Substrings,
     filter_case_sensitive : BOOLEAN,
     max_concurrent_downloads : {1},
     skip_media_types : {{}},
     max_file_size_mb : {DEFAULT_MAX_FILE_SIZE_MB}]

\* what the filter reads of a raw message: the action marker and message.message
\* (None and "" are both the empty string: the code tests `not message_text`)
FilterMessages == [action : BOOLEAN, message : StringsUpTo(MaxTextLen)]

\* a MediaProcessor as constructed, no process_media call made
MediaIdle ==
    /\ downloaded_files = {}
    /\ _global_media_counter = 0
    /\ media_call = <<>>
    /\ media_log = <<>>

\* no message renderer has been created (ExportOrchestrator.__init__)
LinkIdle ==
    /\ message_renderer = <<>>
    /\ msg_text = <<>>
    /\ html_text = <<>>
    /\ transform_calls = 0

\* no wrapper is looked at
RetryIdle ==
    /\ retry_func = ""
    /\ retry_pc = "idle"
    /\ retry_calls = <<>>
    /\ retry_slept = <<>>
    /\ retry_result = <<>>

\* export_chat is not running
ExportIdle ==
    /\ export_pc = "idle"
    /\ export_attempt = 0
    /\ retry_attempt = 0
    /\ is_forum = FALSE
    /\ forum_response = <<>>
    /\ export_topics = <<>>
    /\ topic_idx = 0
    /\ current_topic_id = 0
    /\ processed_topics = <<>>
    /\ chat_size = 0
    /\ fetched = {}
    /\ filter_log = <<>>
    /\ render_log = <<>>
    /\ saved = <<>>
    /\ export_result = <<>>

PipelineIdle ==
    /\ pc = "idle"
    /\ messages_iter = <<>>
    /\ all_messages = <<>>
    /\ grouped_messages = <<>>
    /\ single_messages = <<>>
    /\ filtered_grouped = <<>>
    /\ filtered_single = <<>>
    /\ excluded_count = 0
    /\ filtered_messages = <<>>
    /\ all_items = <<>>
    /\ item_idx = 0
    /\ topics = <<>>
    /\ media_messages = <<>>
    /\ batch_start = 0
    /\ media_tasks = <<>>
    /\ completed_count = 0
    /\ download_semaphore = 1

FilterInit ==
    /\ config \in FilterConfigs
    /\ filter_message = [action |-> FALSE, message |-> <<>>]
    /\ filter_result = <<>>
    /\ PipelineIdle
    /\ MediaIdle
    /\ ExportIdle
    /\ LinkIdle
    /\ RetryIdle

\* one call of MessageFilter.should_include_raw_message
FilterCall ==
    \E message \in FilterMessages :
        /\ filter_message' = message
        /\ filter_result' = <<should_include_raw_message(message)>>
        /\ UNCHANGED <<config, pipeline_vars, media_state_vars, media_api_vars, export_vars>>

FilterNext == FilterCall

FilterSpec == FilterInit /\ [][FilterNext]_vars

\* ---------------------------------------------------------- raw messages
\* topic_id of a flat chat
DefaultTopicId == 1

\* the message date: Telegram dates are seconds, non-decreasing in the id, and
\* messages sent together share one
DateOf(id) == (id + 1) \div 2

PipelineTexts == {<<>>, <<"a">>}

\* "photo": a MessageMediaPhoto, which is never over the size limit
MediaKinds == {"none", "photo"}

\* msg.sender: None is <<>>, else <<the user>>; msg.reactions: None is <<>>,
\* else the results, each an emoticon ("" for a custom emoji, which has none)
\* and a count
DefaultSender == <<"alice">>
NoReactions == <<>>

\* msg.reply_to.  kind: None, a header without reply_to_msg_id
\* (MessageReplyStoryHeader), or a MessageReplyHeader; None fields are <<>>
NoReply ==
    [kind |-> "none", reply_to_msg_id |-> <<>>, forum_topic |-> FALSE,
     reply_to_top_id |-> <<>>]

\* grouped_id 0 stands for None (both are falsy in `if msg.grouped_id`).
\* A service message (MessageService) has an action and neither text, media nor
\* grouped_id.
ServiceMessage(id) ==
    [id |-> id, grouped_id |-> 0, date |-> DateOf(id), action |-> TRUE,
     message |-> <<>>, media |-> "none", size |-> 0, reply_to |-> NoReply,
     sender |-> DefaultSender, reactions |-> NoReactions]

RegularMessages(id, group_ids) ==
    {[id |-> id, grouped_id |-> g, date |-> DateOf(id), action |-> FALSE,
      message |-> t, media |-> k, size |-> 0, reply_to |-> NoReply,
     sender |-> DefaultSender, reactions |-> NoReactions] :
        g \in group_ids, t \in PipelineTexts, k \in MediaKinds}

\* ------------------------------------------------------ sequences, dicts
\* list.sort(key=...): stable, ascending; keys[i] is the key of s[i]
StableSort(s, keys) ==
    LET Rank(i) == 1 + Cardinality({j \in 1..Len(s) :
                        keys[j] < keys[i] \/ (keys[j] = keys[i] /\ j < i)})
    IN [p \in 1..Len(s) |-> s[CHOOSE i \in 1..Len(s) : Rank(i) = p]]

RECURSIVE Flatten(_)
\* the concatenation of a sequence of sequences
Flatten(ss) == IF ss = <<>> THEN <<>> ELSE Head(ss) \o Flatten(Tail(ss))

RECURSIVE SumSeq(_)
SumSeq(ns) == IF ns = <<>> THEN 0 ELSE Head(ns) + SumSeq(Tail(ns))

\* a dict is the sequence of its [key, val] entries in insertion order
DictKeys(d) == {d[i].key : i \in 1..Len(d)}

DictGet(d, k) == d[CHOOSE i \in 1..Len(d) : d[i].key = k].val

\* d[k].append(x), with d[k] = [] first when k is new
DictAppend(d, k, x) ==
    IF k \in DictKeys(d)
    THEN [i \in 1..Len(d) |->
            IF d[i].key = k THEN [key |-> k, val |-> Append(d[i].val, x)] ELSE d[i]]
    ELSE Append(d, [key |-> k, val |-> <<x>>])

Ids(messages) == [i \in 1..Len(messages) |-> messages[i].id]

\* ------------------------------------------------------- _group_messages
RECURSIVE GroupLoop(_, _, _)
\* the loop over messages: [grouped, single] after the remaining messages
GroupLoop(messages, grouped, single) ==
    IF messages = <<>> THEN [grouped |-> grouped, single |-> single]
    ELSE LET msg == Head(messages) IN
         IF msg.grouped_id # 0
         THEN GroupLoop(Tail(messages), DictAppend(grouped, msg.grouped_id, msg), single)
         ELSE GroupLoop(Tail(messages), grouped, Append(single, msg))

\* mutant: the albums are left in arrival order
GroupMessagesUnsorted(messages) == GroupLoop(messages, <<>>, <<>>)

\* mutant: every grouped message is also kept as a single
GroupMessagesDuplicating(messages) ==
    LET r == GroupLoop(messages, <<>>, <<>>) IN
    [grouped |-> [i \in 1..Len(r.grouped) |->
                     [key |-> r.grouped[i].key,
                      val |-> StableSort(r.grouped[i].val, Ids(r.grouped[i].val))]],
     single |-> messages]

_group_messages(messages) ==
    LET r == GroupLoop(messages, <<>>, <<>>) IN
    [grouped |-> [i \in 1..Len(r.grouped) |->
                     [key |-> r.grouped[i].key,
                      val |-> StableSort(r.grouped[i].val, Ids(r.grouped[i].val))]],
     single |-> r.single]

\* ---------------------------------------------- _filter_grouped_messages
\* the inner loop: some message of the group passes the filter
GroupPassesFilter(messages) ==
    \E i \in 1..Len(messages) : should_include_raw_message(messages[i])

\* mutant: an album is filtered message by message
FilterGroupedPerMessage(grouped, single) ==
    LET kept == [i \in 1..Len(grouped) |->
                    [key |-> grouped[i].key,
                     val |-> SelectSeq(grouped[i].val, should_include_raw_message)]]
        nonempty == SelectSeq(kept, LAMBDA e : e.val # <<>>)
    IN [grouped |-> nonempty,
        single |-> SelectSeq(single, should_include_raw_message),
        excluded |-> Len(Flatten([i \in 1..Len(grouped) |-> grouped[i].val]))
                     - Len(Flatten([i \in 1..Len(nonempty) |-> nonempty[i].val]))
                     + Len(single) - Len(SelectSeq(single, should_include_raw_message))]

_filter_grouped_messages(grouped, single) ==
    LET rejected == SelectSeq(grouped, LAMBDA e : ~GroupPassesFilter(e.val))
        dropped == SelectSeq(single, LAMBDA m : ~should_include_raw_message(m))
    IN [grouped |-> SelectSeq(grouped, LAMBDA e : GroupPassesFilter(e.val)),
        single |-> SelectSeq(single, should_include_raw_message),
        excluded |-> SumSeq([i \in 1..Len(rejected) |-> Len(rejected[i].val)])
                     + Len(dropped)]

\* ---------------------------------------------------- _create_sorted_items
\* mutant: an album gives one item per member
CreateSortedItemsPerMember(grouped, single) ==
    LET members == Flatten([i \in 1..Len(grouped) |-> grouped[i].val])
        items == [i \in 1..Len(members) |->
                     [item_type |-> "group", timestamp |-> members[i].date,
                      data |-> <<members[i]>>]]
                 \o [i \in 1..Len(single) |->
                     [item_type |-> "single", timestamp |-> single[i].date,
                      data |-> <<single[i]>>]]
    IN StableSort(items, [i \in 1..Len(items) |-> items[i].timestamp])

\* mutant: the items are left as collected, albums before singles
CreateItemsUnsorted(grouped, single) ==
    [i \in 1..Len(grouped) |->
        [item_type |-> "group", timestamp |-> grouped[i].val[1].date,
         data |-> grouped[i].val]]
    \o [i \in 1..Len(single) |->
        [item_type |-> "single", timestamp |-> single[i].date,
         data |-> <<single[i]>>]]

\* an item's data is a list of messages; a "single" item holds one
_create_sorted_items(grouped, single) ==
    LET items == [i \in 1..Len(grouped) |->
                     [item_type |-> "group", timestamp |-> grouped[i].val[1].date,
                      data |-> grouped[i].val]]
                 \o [i \in 1..Len(single) |->
                     [item_type |-> "single", timestamp |-> single[i].date,
                      data |-> <<single[i]>>]]
    IN StableSort(items, [i \in 1..Len(items) |-> items[i].timestamp])

\* ------------------------------------------------- media types and sizes
\* MediaType: the values of the enum
MediaTypes == {"photo", "video", "video_note", "voice", "audio", "document", "gif"}

\* isinstance(msg.media, MessageMediaPhoto)
IsMessageMediaPhoto(msg) == msg.media = "photo"

\* isinstance(msg.media, MessageMediaDocument).  msg.media names the sort of
\* media: "none" (no media), "photo", a sort of document, or "webpage" (a link
\* preview: media that is neither a photo nor a document)
IsMessageMediaDocument(msg) ==
    msg.media \in {"video", "video_note", "voice", "audio", "gif", "document"}

\* getattr(msg, attr, False) for the attributes of type_mapping: a round video
\* is a video too, a voice message is audio too
MessageAttr(msg, attr) ==
    CASE msg.media = "video" -> attr = "video"
      [] msg.media = "video_note" -> attr \in {"video_note", "video"}
      [] msg.media = "voice" -> attr \in {"voice", "audio"}
      [] msg.media = "audio" -> attr = "audio"
      [] msg.media = "gif" -> attr = "gif"
      [] OTHER -> FALSE

\* the keys of type_mapping, in the order of the dict
type_mapping == <<"video_note", "video", "voice", "audio", "gif">>

\* MediaProcessor._get_media_type; "None" when the type is not recognised
_get_media_type(msg) ==
    IF msg.media = "none" THEN "None"
    ELSE IF IsMessageMediaPhoto(msg) THEN "photo"
    ELSE LET hits == {i \in 1..Len(type_mapping) : MessageAttr(msg, type_mapping[i])}
         IN IF hits # {}
            THEN type_mapping[CHOOSE i \in hits : \A j \in hits : i <= j]
            ELSE IF IsMessageMediaDocument(msg) THEN "document"
            ELSE "None"

\* MediaProcessor._get_file_size: the size of the document, 0 without one
_get_file_size(msg) == IF IsMessageMediaDocument(msg) THEN msg.size ELSE 0

\* MediaProcessor._exceeds_size_limit
_exceeds_size_limit(msg) ==
    _get_file_size(msg) > config.max_file_size_mb * 1024 * 1024

\* mutant: a file of exactly the limit is skipped too
ShouldSkipAtLimit(msg) ==
    IF msg.media = "none" THEN TRUE
    ELSE IF _get_media_type(msg) # "None"
            /\ _get_media_type(msg) \in config.skip_media_types
    THEN TRUE
    ELSE _get_file_size(msg) >= config.max_file_size_mb * 1024 * 1024

\* MediaProcessor.should_skip_media
should_skip_media(msg) ==
    IF msg.media = "none" THEN TRUE
    ELSE IF _get_media_type(msg) # "None"
            /\ _get_media_type(msg) \in config.skip_media_types
    THEN TRUE
    ELSE _exceeds_size_limit(msg)

\* MessageProcessor._get_skip_reason: "" is <<>>
_get_skip_reason(msg) ==
    IF msg.media = "none" THEN <<>>
    ELSE IF _get_media_type(msg) # "None"
            /\ _get_media_type(msg) \in config.skip_media_types
    THEN <<"contains", _get_media_type(msg)>>
    ELSE IF _exceeds_size_limit(msg)
    THEN <<"size", _get_file_size(msg), config.max_file_size_mb>>
    ELSE <<>>

\* mutant: the target id alone makes a reply
GetReplyInfoIgnoringTopic(msg) ==
    IF msg.reply_to.kind = "message" /\ msg.reply_to.reply_to_msg_id # <<>>
    THEN [is_reply |-> TRUE, reply_to_msg_id |-> msg.reply_to.reply_to_msg_id]
    ELSE [is_reply |-> FALSE, reply_to_msg_id |-> <<>>]

\* MessageProcessor._get_reply_info: (is_reply, reply_to_id), None is <<>>
_get_reply_info(msg) ==
    LET reply_to == msg.reply_to IN
    IF reply_to.kind # "none"
       /\ reply_to.kind = "message"
       /\ reply_to.reply_to_msg_id # <<>>
    THEN IF reply_to.forum_topic
         THEN IF reply_to.reply_to_top_id # <<>>
              THEN [is_reply |-> TRUE, reply_to_msg_id |-> reply_to.reply_to_msg_id]
              ELSE [is_reply |-> FALSE, reply_to_msg_id |-> <<>>]
         ELSE [is_reply |-> TRUE, reply_to_msg_id |-> reply_to.reply_to_msg_id]
    ELSE [is_reply |-> FALSE, reply_to_msg_id |-> <<>>]

\* _format_message_date: the date in config.timezone, written with
\* config.date_format
_format_message_date(msg_date) == <<"formatted", msg_date>>

\* _format_sender_name: the display name with the id, "Неизвестно" (unknown)
\* without a sender
_format_sender_name(sender) ==
    IF sender = <<>> THEN <<"unknown">> ELSE <<"name", sender[1], "ID", sender[1]>>

\* _extract_reactions: the results that have an emoticon and a positive count
_extract_reactions(msg) ==
    SelectSeq(msg.reactions, LAMBDA r : r.emoticon # "" /\ r.count > 0)

\* _get_topic_id of the single-file script: the topic a message points at,
\* reply_to_top_id or reply_to_msg_id or 1 for a forum-topic header, else 1
_get_topic_id(msg) ==
    LET reply_to == msg.reply_to IN
    IF reply_to.kind # "none" /\ reply_to.forum_topic
    THEN IF reply_to.reply_to_top_id # <<>> THEN reply_to.reply_to_top_id[1]
         ELSE IF reply_to.reply_to_msg_id # <<>> THEN reply_to.reply_to_msg_id[1]
         ELSE 1
    ELSE 1

\* ------------------------------------------------------------ text pass
BR == <<"br", 0>>

\* "<br>".join(parts), each part a string of fragments
RECURSIVE JoinBr(_)
JoinBr(parts) ==
    IF parts = <<>> THEN <<>>
    ELSE IF Len(parts) = 1 THEN parts[1]
    ELSE parts[1] \o <<BR>> \o JoinBr(Tail(parts))

\* HTMLMessageRenderer.render_message: the link-rewritten text of the message,
\* one fragment, or "" when the message has no text
render_message(msg) ==
    IF msg.message # <<>> THEN << <<"text", msg.id>> >> ELSE <<>>

TopicData(id) == [id |-> id, title |-> <<"Topic", id>>, messages |-> <<>>]

\* `if topic_id not in topics: topics[topic_id] = TopicData(...)`
EnsureTopic(tps, topic_id) ==
    IF topic_id \in DOMAIN tps THEN tps
    ELSE [t \in DOMAIN tps \cup {topic_id} |->
            IF t = topic_id THEN TopicData(topic_id) ELSE tps[t]]

AppendMessage(tps, topic_id, message_data) ==
    [tps EXCEPT ![topic_id].messages = Append(@, message_data)]

\* mutant: the record lists the first member only
ProcessGroupFirstIdOnly(message_group, tps, topic_id) ==
    IF message_group = <<>> THEN tps
    ELSE LET first_msg == message_group[1]
             texts == [i \in 1..Len(message_group) |-> render_message(message_group[i])]
             combined_content == SelectSeq(texts, LAMBDA t : t # <<>>)
         IN AppendMessage(EnsureTopic(tps, topic_id), topic_id,
               [id |-> first_msg.id,
                html_content |-> JoinBr(combined_content),
                topic_id |-> topic_id,
                is_service |-> first_msg.action,
                is_reply |-> _get_reply_info(first_msg).is_reply,
                reply_to_msg_id |-> _get_reply_info(first_msg).reply_to_msg_id,
                skip_reason |-> _get_skip_reason(first_msg),
                date |-> _format_message_date(first_msg.date),
                sender |-> _format_sender_name(first_msg.sender),
                reactions |-> _extract_reactions(first_msg),
                grouped_message_ids |-> <<first_msg.id>>])

\* mutant: the texts are joined newest first
ProcessGroupReversedTexts(message_group, tps, topic_id) ==
    IF message_group = <<>> THEN tps
    ELSE LET first_msg == message_group[1]
             n == Len(message_group)
             texts == [i \in 1..n |-> render_message(message_group[n + 1 - i])]
             combined_content == SelectSeq(texts, LAMBDA t : t # <<>>)
         IN AppendMessage(EnsureTopic(tps, topic_id), topic_id,
               [id |-> first_msg.id,
                html_content |-> JoinBr(combined_content),
                topic_id |-> topic_id,
                is_service |-> first_msg.action,
                is_reply |-> _get_reply_info(first_msg).is_reply,
                reply_to_msg_id |-> _get_reply_info(first_msg).reply_to_msg_id,
                skip_reason |-> _get_skip_reason(first_msg),
                date |-> _format_message_date(first_msg.date),
                sender |-> _format_sender_name(first_msg.sender),
                reactions |-> _extract_reactions(first_msg),
                grouped_message_ids |-> Ids(message_group)])

\* mutant: the record is described by the newest member
ProcessGroupNewestMember(message_group, tps, topic_id) ==
    IF message_group = <<>> THEN tps
    ELSE LET first_msg == message_group[Len(message_group)]
             texts == [i \in 1..Len(message_group) |-> render_message(message_group[i])]
             combined_content == SelectSeq(texts, LAMBDA t : t # <<>>)
         IN AppendMessage(EnsureTopic(tps, topic_id), topic_id,
               [id |-> message_group[1].id,
                html_content |-> JoinBr(combined_content),
                topic_id |-> topic_id,
                is_service |-> first_msg.action,
                is_reply |-> _get_reply_info(first_msg).is_reply,
                reply_to_msg_id |-> _get_reply_info(first_msg).reply_to_msg_id,
                skip_reason |-> _get_skip_reason(first_msg),
                date |-> _format_message_date(first_msg.date),
                sender |-> _format_sender_name(first_msg.sender),
                reactions |-> _extract_reactions(first_msg),
                grouped_message_ids |-> Ids(message_group)])

_process_message_group_text_only(message_group, tps, topic_id) ==
    IF message_group = <<>> THEN tps
    ELSE LET first_msg == message_group[1]
             texts == [i \in 1..Len(message_group) |-> render_message(message_group[i])]
             combined_content == SelectSeq(texts, LAMBDA t : t # <<>>)
         IN AppendMessage(EnsureTopic(tps, topic_id), topic_id,
               [id |-> first_msg.id,
                html_content |-> JoinBr(combined_content),
                topic_id |-> topic_id,
                is_service |-> first_msg.action,
                is_reply |-> _get_reply_info(first_msg).is_reply,
                reply_to_msg_id |-> _get_reply_info(first_msg).reply_to_msg_id,
                skip_reason |-> _get_skip_reason(first_msg),
                date |-> _format_message_date(first_msg.date),
                sender |-> _format_sender_name(first_msg.sender),
                reactions |-> _extract_reactions(first_msg),
                grouped_message_ids |-> Ids(message_group)])

\* grouped_message_ids is left at its default, the empty list
_process_single_message_text_only(msg, tps, topic_id) ==
    AppendMessage(EnsureTopic(tps, topic_id), topic_id,
        [id |-> msg.id,
         html_content |-> render_message(msg),
         topic_id |-> topic_id,
         is_service |-> msg.action,
         is_reply |-> _get_reply_info(msg).is_reply,
         reply_to_msg_id |-> _get_reply_info(msg).reply_to_msg_id,
         skip_reason |-> _get_skip_reason(msg),
         date |-> _format_message_date(msg.date),
         sender |-> _format_sender_name(msg.sender),
         reactions |-> _extract_reactions(msg),
         grouped_message_ids |-> <<>>])

\* ------------------------------------------------------------ media pass
\* _generate_media_html: the HTML snippet of the downloaded file, one fragment
_generate_media_html(msg_id) == << <<"media", msg_id>> >>

\* Constants.RETRY_ATTEMPTS, Constants.RETRY_DELAY (seconds)
RETRY_ATTEMPTS == 3
RETRY_DELAY == 1

RECURSIVE Pow2(_)
Pow2(n) == IF n = 0 THEN 1 ELSE 2 * Pow2(n - 1)

\* mutant: the wrapper sleeps the base delay before every retry
RetryConstantDelay(attempt, raised) ==
    IF ~raised THEN [kind |-> "return", delay |-> 0]
    ELSE IF attempt = RETRY_ATTEMPTS - 1 THEN [kind |-> "raise", delay |-> 0]
    ELSE [kind |-> "sleep", delay |-> RETRY_DELAY]

\* retry_on_error, one turn of `for attempt in range(max_attempts)` after the
\* call of func has returned or raised an Exception: the wrapper returns func's
\* value, re-raises on the last attempt, or sleeps delay * 2**attempt and goes on
retry_on_error(attempt, raised) ==
    IF ~raised THEN [kind |-> "return", delay |-> 0]
    ELSE IF attempt = RETRY_ATTEMPTS - 1 THEN [kind |-> "raise", delay |-> 0]
    ELSE [kind |-> "sleep", delay |-> RETRY_DELAY * Pow2(attempt)]

\* mutant: the name is made of the message and its media alone
GenerateFilenamePerMessage(msg, global_index) == <<"msg", msg.id, 0, msg.media>>

\* msg_{msg.id}_{global_index}_{base_name}{extension}; base name and extension
\* are given by the media type
_generate_unique_filename(msg, global_index) == <<"msg", msg.id, global_index, msg.media>>

\* what msg.download_media does: it returns a path, returns None, or raises
DownloadOutcomes == {"downloaded", "no_path", "raised"}

\* the outcomes of a download task: those of the download, or the task is
\* cancelled while it awaits the download
TaskOutcomes == DownloadOutcomes \cup {"cancelled"}

\* asyncio.CancelledError(), the result gather(return_exceptions=True) gives
\* for a cancelled task: an object that is no str and no Exception
CancelledError == << <<"CancelledError", 0>> >>

\* isinstance(value, str) of a value held by html_content or media_html
IsStr(value) == \A i \in 1..Len(value) : value[i][1] # "CancelledError"

\* _download_media with the given outcome of msg.download_media.  invoked: the
\* download was called; kind, value: how the method ends
_download_media(msg, outcome) ==
    LET global_index == _global_media_counter + 1
        media_filename == _generate_unique_filename(msg, global_index)
    IN IF media_filename \in downloaded_files
       THEN [counter |-> global_index, files |-> downloaded_files, invoked |-> FALSE,
             kind |-> "return", value |-> "None"]
       ELSE IF outcome = "downloaded"
       THEN [counter |-> global_index, files |-> downloaded_files \cup {media_filename},
             invoked |-> TRUE, kind |-> "return", value |-> "html"]
       ELSE IF outcome = "no_path"
       THEN [counter |-> global_index, files |-> downloaded_files, invoked |-> TRUE,
             kind |-> "return", value |-> "None"]
       ELSE IF outcome = "raised"
       THEN [counter |-> global_index, files |-> downloaded_files, invoked |-> TRUE,
             kind |-> "raise", value |-> "MediaDownloadError"]
       ELSE [counter |-> global_index, files |-> downloaded_files, invoked |-> TRUE,
             kind |-> "cancelled", value |-> "CancelledError"]

\* the body of process_media (the decorated function): `except Exception`
\* turns a raising _download_media into the return value None; a
\* CancelledError is no Exception and leaves the method
process_media(msg, outcome) ==
    IF msg.media = "none" \/ should_skip_media(msg)
    THEN [counter |-> _global_media_counter, files |-> downloaded_files,
          invoked |-> FALSE, kind |-> "return", value |-> "None"]
    ELSE LET result == _download_media(msg, outcome) IN
         IF result.kind = "raise"
         THEN [result EXCEPT !.kind = "return", !.value = "None"]
         ELSE result

\* mutant: the media HTML replaces the content
AppendMediaOverwriting(message, media_html) ==
    [message EXCEPT !.html_content = media_html]

\* `+=` of "<br>" + media_html raises TypeError unless both sides are str; the
\* loop over the results catches it and the message is left as it was
_append_media_to_content(message, media_html) ==
    IF message.html_content # <<>>
    THEN IF IsStr(message.html_content) /\ IsStr(media_html)
         THEN [message EXCEPT !.html_content = @ \o <<BR>> \o media_html]
         ELSE message
    ELSE [message EXCEPT !.html_content = media_html]

InSeq(x, s) == \E i \in 1..Len(s) : s[i] = x

\* the record the loop of _add_media_to_message stops at
Matches(message, msg_id) ==
    message.id = msg_id \/ InSeq(msg_id, message.grouped_message_ids)

\* mutant: only the primary id is looked up
AddMediaByPrimaryIdOnly(tps, topic_id, msg_id, media_html) ==
    IF topic_id \notin DOMAIN tps THEN tps
    ELSE LET ms == tps[topic_id].messages
             hits == {i \in 1..Len(ms) : ms[i].id = msg_id}
         IN IF hits = {} THEN tps
            ELSE LET first == CHOOSE i \in hits : \A j \in hits : i <= j
                 IN [tps EXCEPT ![topic_id].messages[first] =
                        _append_media_to_content(@, media_html)]

\* mutant: every record is given the media
AddMediaToEveryRecord(tps, topic_id, msg_id, media_html) ==
    IF topic_id \notin DOMAIN tps THEN tps
    ELSE [tps EXCEPT ![topic_id].messages =
            [i \in 1..Len(@) |-> _append_media_to_content(@[i], media_html)]]

_add_media_to_message(tps, topic_id, msg_id, media_html) ==
    IF topic_id \notin DOMAIN tps THEN tps
    ELSE LET ms == tps[topic_id].messages
             hits == {i \in 1..Len(ms) : Matches(ms[i], msg_id)}
         IN IF hits = {} THEN tps
            ELSE LET first == CHOOSE i \in hits : \A j \in hits : i <= j
                 IN [tps EXCEPT ![topic_id].messages[first] =
                        _append_media_to_content(@, media_html)]

\* mutant: the loop over the results ends at the first task without media
RECURSIVE MergeResultsUntilFailure(_, _, _)
MergeResultsUntilFailure(tasks, tps, topic_id) ==
    IF tasks = <<>> THEN tps
    ELSE LET t == Head(tasks) IN
         IF t.result = "html"
         THEN MergeResultsUntilFailure(Tail(tasks),
                  _add_media_to_message(tps, topic_id, t.msg_id,
                                        _generate_media_html(t.msg_id)),
                  topic_id)
         ELSE tps

\* the loop over the results of a joined batch, in task order
RECURSIVE MergeResults(_, _, _)
MergeResults(tasks, tps, topic_id) ==
    IF tasks = <<>> THEN tps
    ELSE LET t == Head(tasks)
             next == IF t.result = "Exception" THEN tps
                     ELSE IF t.result = "html"
                     THEN _add_media_to_message(tps, topic_id, t.msg_id,
                                                _generate_media_html(t.msg_id))
                     ELSE IF t.result = "CancelledError"
                     THEN _add_media_to_message(tps, topic_id, t.msg_id, CancelledError)
                     ELSE tps
         IN MergeResults(Tail(tasks), next, topic_id)

Min(a, b) == IF a < b THEN a ELSE b

\* media_messages[i:i + max_concurrent], i counted from 0
Batch(msgs, i, max_concurrent) == SubSeq(msgs, i + 1, Min(Len(msgs), i + max_concurrent))

\* ------------------------------------------------- pipeline specification
\* the filter configurations of a pipeline run
PipelineConfigs ==
    [filter_include_substrings : SUBSET {<<"a">>},
     filter_exclude_substrings : SUBSET {<<"a">>},
     filter_case_sensitive : {TRUE},
     max_concurrent_downloads : 1..MaxConcurrent,
     skip_media_types : {{}},
     max_file_size_mb : {DEFAULT_MAX_FILE_SIZE_MB}]

FilterIdle ==
    /\ filter_message = [action |-> FALSE, message |-> <<>>]
    /\ filter_result = <<>>

\* process_messages_streaming is entered for a flat chat: topics is what
\* load_forum_topics returned, {1: TopicData(1, "General")}
Init ==
    /\ config \in PipelineConfigs
    /\ FilterIdle
    /\ pc = "collecting"
    /\ messages_iter \in 0..MaxMsgs
    /\ all_messages = <<>>
    /\ grouped_messages = <<>>
    /\ single_messages = <<>>
    /\ filtered_grouped = <<>>
    /\ filtered_single = <<>>
    /\ excluded_count = 0
    /\ filtered_messages = <<>>
    /\ all_items = <<>>
    /\ item_idx = 0
    /\ topics = [t \in {DefaultTopicId} |->
                    [id |-> t, title |-> <<"General">>, messages |-> <<>>]]
    /\ media_messages = <<>>
    /\ batch_start = 0
    /\ media_tasks = <<>>
    /\ completed_count = 0
    /\ download_semaphore = config.max_concurrent_downloads
    /\ MediaIdle
    /\ ExportIdle
    /\ LinkIdle
    /\ RetryIdle

\* the grouped_ids already delivered; a new album takes the next unused id
UsedGroups == {all_messages[i].grouped_id : i \in 1..Len(all_messages)} \cup {0}

NextGroupIds == 0..Min(MaxGroups, Cardinality(UsedGroups))

\* `async for msg in messages_iter`: the iterator delivers the next message,
\* newest first (iter_messages(reverse=False))
Collect ==
    /\ pc = "collecting"
    /\ messages_iter > 0
    /\ \E msg \in {ServiceMessage(messages_iter)}
                  \cup RegularMessages(messages_iter, NextGroupIds) :
          all_messages' = Append(all_messages, msg)
    /\ messages_iter' = messages_iter - 1
    /\ UNCHANGED <<media_state_vars, media_api_vars, export_vars>>
    /\ UNCHANGED <<config, filter_message, filter_result, pc, grouped_messages,
                   single_messages, filtered_grouped, filtered_single, excluded_count,
                   filtered_messages, all_items, item_idx, topics, media_messages,
                   batch_start, media_tasks, completed_count, download_semaphore>>

\* the iterator is exhausted: grouped, single = self._group_messages(all_messages)
Group ==
    /\ pc = "collecting"
    /\ messages_iter = 0
    /\ LET r == _group_messages(all_messages) IN
          /\ grouped_messages' = r.grouped
          /\ single_messages' = r.single
    /\ pc' = "filtering"
    /\ UNCHANGED <<media_state_vars, media_api_vars, export_vars>>
    /\ UNCHANGED <<config, filter_message, filter_result, messages_iter, all_messages,
                   filtered_grouped, filtered_single, excluded_count,
                   filtered_messages, all_items, item_idx, topics, media_messages,
                   batch_start, media_tasks, completed_count, download_semaphore>>

\* _filter_grouped_messages, the early return when nothing is left, else
\* filtered_messages and the sorted items
Filter ==
    /\ pc = "filtering"
    /\ LET r == _filter_grouped_messages(grouped_messages, single_messages)
           filtered_message_count ==
               SumSeq([i \in 1..Len(r.grouped) |-> Len(r.grouped[i].val)]) + Len(r.single)
       IN /\ filtered_grouped' = r.grouped
          /\ filtered_single' = r.single
          /\ excluded_count' = r.excluded
          /\ IF filtered_message_count = 0
             THEN /\ pc' = "empty"
                  /\ topics' = EnsureTopic(topics, DefaultTopicId)
                  /\ UNCHANGED <<filtered_messages, all_items>>
             ELSE /\ pc' = "text_pass"
                  /\ filtered_messages' =
                        Flatten([i \in 1..Len(r.grouped) |-> r.grouped[i].val]) \o r.single
                  /\ all_items' = _create_sorted_items(r.grouped, r.single)
                  /\ UNCHANGED topics
    /\ UNCHANGED <<media_state_vars, media_api_vars, export_vars>>
    /\ UNCHANGED <<config, filter_message, filter_result, messages_iter, all_messages,
                   grouped_messages, single_messages, item_idx, media_messages,
                   batch_start, media_tasks, completed_count, download_semaphore>>

\* one iteration of the text loop
TextItem ==
    /\ pc = "text_pass"
    /\ item_idx < Len(all_items)
    /\ LET item == all_items[item_idx + 1] IN
          topics' = IF item.item_type = "group"
                    THEN _process_message_group_text_only(item.data, topics, DefaultTopicId)
                    ELSE _process_single_message_text_only(item.data[1], topics,
                                                           DefaultTopicId)
    /\ item_idx' = item_idx + 1
    /\ UNCHANGED <<media_state_vars, media_api_vars, export_vars>>
    /\ UNCHANGED <<config, filter_message, filter_result, pc, messages_iter, all_messages,
                   grouped_messages, single_messages, filtered_grouped, filtered_single,
                   excluded_count, filtered_messages, all_items, media_messages,
                   batch_start, media_tasks, completed_count, download_semaphore>>

\* mutant: the media pass starts while the text loop is still running
StartMediaPassEarly ==
    /\ pc = "text_pass"
    /\ media_messages' = SelectSeq(filtered_messages,
                            LAMBDA m : m.media # "none" /\ ~should_skip_media(m))
    /\ pc' = IF media_messages' = <<>> THEN "done" ELSE "batch_loop"
    /\ UNCHANGED <<media_state_vars, media_api_vars, export_vars>>
    /\ UNCHANGED <<config, filter_message, filter_result, messages_iter, all_messages,
                   grouped_messages, single_messages, filtered_grouped, filtered_single,
                   excluded_count, filtered_messages, all_items, item_idx, topics,
                   batch_start, media_tasks, completed_count, download_semaphore>>

\* _process_all_media_parallel up to its batch loop
StartMediaPass ==
    /\ pc = "text_pass"
    /\ item_idx = Len(all_items)
    /\ media_messages' = SelectSeq(filtered_messages,
                            LAMBDA m : m.media # "none" /\ ~should_skip_media(m))
    /\ pc' = IF media_messages' = <<>> THEN "done" ELSE "batch_loop"
    /\ UNCHANGED <<media_state_vars, media_api_vars, export_vars>>
    /\ UNCHANGED <<config, filter_message, filter_result, messages_iter, all_messages,
                   grouped_messages, single_messages, filtered_grouped, filtered_single,
                   excluded_count, filtered_messages, all_items, item_idx, topics,
                   batch_start, media_tasks, completed_count, download_semaphore>>

\* the tasks of the next batch are created and gather() is awaited
StartBatch ==
    /\ pc = "batch_loop"
    /\ batch_start < Len(media_messages)
    /\ LET batch == Batch(media_messages, batch_start, config.max_concurrent_downloads) IN
          media_tasks' = media_tasks \o
                         [i \in 1..Len(batch) |->
                            [msg_id |-> batch[i].id, state |-> "created",
                             result |-> "pending", filename |-> <<>>]]
    /\ pc' = "gather"
    /\ UNCHANGED <<media_state_vars, media_api_vars, export_vars>>
    /\ UNCHANGED <<config, filter_message, filter_result, messages_iter, all_messages,
                   grouped_messages, single_messages, filtered_grouped, filtered_single,
                   excluded_count, filtered_messages, all_items, item_idx, topics,
                   media_messages, batch_start, completed_count, download_semaphore>>

\* A task runs process_media up to its first suspension: it enters
\* `async with self.download_semaphore`, and _download_media generates the
\* filename, tests downloaded_files and awaits msg.download_media.  The event
\* loop starts the tasks in the order create_task was called.
TaskAcquire ==
    /\ pc = "gather"
    /\ download_semaphore > 0
    /\ \E k \in 1..Len(media_tasks) :
          /\ media_tasks[k].state = "created"
          /\ \A j \in 1..(k - 1) : media_tasks[j].state # "created"
          /\ LET media_filename == _generate_unique_filename(media_messages[k],
                                                             _global_media_counter + 1)
             IN IF media_filename \in downloaded_files
                THEN /\ media_tasks' = [media_tasks EXCEPT ![k].state = "done",
                                                           ![k].result = "None"]
                     /\ UNCHANGED download_semaphore
                ELSE /\ media_tasks' = [media_tasks EXCEPT ![k].state = "downloading",
                                                           ![k].filename = media_filename]
                     /\ download_semaphore' = download_semaphore - 1
    /\ _global_media_counter' = _global_media_counter + 1
    /\ UNCHANGED downloaded_files
    /\ UNCHANGED <<media_api_vars, export_vars>>
    /\ UNCHANGED <<config, filter_message, filter_result, pc, messages_iter, all_messages,
                   grouped_messages, single_messages, filtered_grouped, filtered_single,
                   excluded_count, filtered_messages, all_items, item_idx, topics,
                   media_messages, batch_start, completed_count>>

\* what process_media returns for an outcome of _download_media: the HTML, or
\* None when the download gave no path or raised (the exception is swallowed)
ProcessMediaResult(outcome) == IF outcome = "downloaded" THEN "html" ELSE "None"

\* mutant: the permit is not given back when the download raised
TaskCompleteLeakOnRaise ==
    /\ pc = "gather"
    /\ \E k \in 1..Len(media_tasks), outcome \in DownloadOutcomes :
          /\ media_tasks[k].state = "downloading"
          /\ media_tasks' = [media_tasks EXCEPT ![k].state = "done",
                                                ![k].result = ProcessMediaResult(outcome)]
          /\ downloaded_files' = IF outcome = "downloaded"
                                 THEN downloaded_files \cup {media_tasks[k].filename}
                                 ELSE downloaded_files
          /\ download_semaphore' = IF outcome = "raised" THEN download_semaphore
                                   ELSE download_semaphore + 1
    /\ UNCHANGED _global_media_counter
    /\ UNCHANGED <<media_api_vars, export_vars>>
    /\ UNCHANGED <<config, filter_message, filter_result, pc, messages_iter, all_messages,
                   grouped_messages, single_messages, filtered_grouped, filtered_single,
                   excluded_count, filtered_messages, all_items, item_idx, topics,
                   media_messages, batch_start, completed_count>>

\* msg.download_media ends, _download_media records the file and process_media
\* leaves the semaphore
TaskComplete ==
    /\ pc = "gather"
    /\ \E k \in 1..Len(media_tasks), outcome \in DownloadOutcomes :
          /\ media_tasks[k].state = "downloading"
          /\ media_tasks' = [media_tasks EXCEPT ![k].state = "done",
                                                ![k].result = ProcessMediaResult(outcome)]
          /\ downloaded_files' = IF outcome = "downloaded"
                                 THEN downloaded_files \cup {media_tasks[k].filename}
                                 ELSE downloaded_files
    /\ download_semaphore' = download_semaphore + 1
    /\ UNCHANGED _global_media_counter
    /\ UNCHANGED <<media_api_vars, export_vars>>
    /\ UNCHANGED <<config, filter_message, filter_result, pc, messages_iter, all_messages,
                   grouped_messages, single_messages, filtered_grouped, filtered_single,
                   excluded_count, filtered_messages, all_items, item_idx, topics,
                   media_messages, batch_start, completed_count>>

\* batch_tasks: the tasks of the current batch
BatchTasks == SubSeq(media_tasks, batch_start + 1, Len(media_tasks))

\* mutant: the loop goes on as soon as one task of the batch is done
JoinBatchOnFirstDone ==
    /\ pc = "gather"
    /\ \E k \in 1..Len(BatchTasks) : BatchTasks[k].state = "done"
    /\ topics' = MergeResults(BatchTasks, topics, DefaultTopicId)
    /\ completed_count' = completed_count + Len(BatchTasks)
    /\ batch_start' = batch_start + config.max_concurrent_downloads
    /\ pc' = IF batch_start' < Len(media_messages) THEN "batch_loop" ELSE "done"
    /\ UNCHANGED <<media_state_vars, media_api_vars, export_vars>>
    /\ UNCHANGED <<config, filter_message, filter_result, messages_iter, all_messages,
                   grouped_messages, single_messages, filtered_grouped, filtered_single,
                   excluded_count, filtered_messages, all_items, item_idx,
                   media_messages, media_tasks, download_semaphore>>

\* gather() returns: the results are merged in task order, then the loop goes on
JoinBatch ==
    /\ pc = "gather"
    /\ \A k \in 1..Len(BatchTasks) : BatchTasks[k].state = "done"
    /\ topics' = MergeResults(BatchTasks, topics, DefaultTopicId)
    /\ completed_count' = completed_count + Len(BatchTasks)
    /\ batch_start' = batch_start + config.max_concurrent_downloads
    /\ pc' = IF batch_start' < Len(media_messages) THEN "batch_loop" ELSE "done"
    /\ UNCHANGED <<media_state_vars, media_api_vars, export_vars>>
    /\ UNCHANGED <<config, filter_message, filter_result, messages_iter, all_messages,
                   grouped_messages, single_messages, filtered_grouped, filtered_single,
                   excluded_count, filtered_messages, all_items, item_idx,
                   media_messages, media_tasks, download_semaphore>>

Next ==
    \/ Collect
    \/ Group
    \/ Filter
    \/ TextItem
    \/ StartMediaPass
    \/ StartBatch
    \/ TaskAcquire
    \/ TaskComplete
    \/ JoinBatch

Spec == Init /\ [][Next]_vars

\* ------------------------------------------------ fair media pass
\* The pipeline under the scheduling of the event loop: a coroutine that can
\* go on is resumed, and every msg.download_media that was awaited returns or
\* raises.  The configurations include --skip-media-types photo.
MediaPassConfigs ==
    [filter_include_substrings : SUBSET {<<"a">>},
     filter_exclude_substrings : {{}},
     filter_case_sensitive : {TRUE},
     max_concurrent_downloads : 1..MaxConcurrent,
     skip_media_types : {{}, {"photo"}},
     max_file_size_mb : {DEFAULT_MAX_FILE_SIZE_MB}]

MediaPassInit ==
    /\ config \in MediaPassConfigs
    /\ FilterIdle
    /\ pc = "collecting"
    /\ messages_iter \in 0..MaxMsgs
    /\ all_messages = <<>>
    /\ grouped_messages = <<>>
    /\ single_messages = <<>>
    /\ filtered_grouped = <<>>
    /\ filtered_single = <<>>
    /\ excluded_count = 0
    /\ filtered_messages = <<>>
    /\ all_items = <<>>
    /\ item_idx = 0
    /\ topics = [t \in {DefaultTopicId} |->
                    [id |-> t, title |-> <<"General">>, messages |-> <<>>]]
    /\ media_messages = <<>>
    /\ batch_start = 0
    /\ media_tasks = <<>>
    /\ completed_count = 0
    /\ download_semaphore = config.max_concurrent_downloads
    /\ MediaIdle
    /\ ExportIdle
    /\ LinkIdle
    /\ RetryIdle

MediaPassSpec ==
    /\ MediaPassInit
    /\ [][Next]_vars
    /\ WF_vars(StartMediaPass)
    /\ WF_vars(StartBatch)
    /\ WF_vars(TaskAcquire)
    /\ WF_vars(TaskComplete)
    /\ WF_vars(JoinBatch)

\* ------------------------------------------- media processor specification
\* what process_media reads of a message: its id and its media
MediaCallMessages == [id : 1..MaxMsgs, media : MediaKinds, size : {0}]

MediaConfigs ==
    [filter_include_substrings : {{}},
     filter_exclude_substrings : {{}},
     filter_case_sensitive : {TRUE},
     max_concurrent_downloads : {1},
     skip_media_types : {{}},
     max_file_size_mb : {DEFAULT_MAX_FILE_SIZE_MB}]

\* a MediaProcessor as constructed; process_media is called from outside, one
\* call at a time
MediaInit ==
    /\ config \in MediaConfigs
    /\ FilterIdle
    /\ PipelineIdle
    /\ MediaIdle
    /\ ExportIdle
    /\ LinkIdle
    /\ RetryIdle

\* media_processor.process_media(msg) is called: the wrapper of retry_on_error
\* starts its loop
ProcessMediaCall ==
    /\ media_call = <<>>
    /\ Len(media_log) < MaxCalls
    /\ \E msg \in MediaCallMessages :
          media_call' = <<[msg |-> msg, attempt |-> 0, downloads |-> 0, failed |-> 0,
                           slept |-> <<>>]>>
    /\ UNCHANGED <<config, filter_message, filter_result, pipeline_vars,
                   media_state_vars, media_log, export_vars>>

\* one turn of the wrapper's loop: the decorated function runs to its end (the
\* semaphore is taken and given back), then the wrapper returns, raises or sleeps
ProcessMediaAttempt ==
    /\ media_call # <<>>
    /\ \E outcome \in DownloadOutcomes :
          LET call == media_call[1]
              result == process_media(call.msg, outcome)
              wrapper == retry_on_error(call.attempt, result.kind = "raise")
              downloads == call.downloads + IF result.invoked THEN 1 ELSE 0
              failed == call.failed
                        + IF result.invoked /\ outcome = "raised" THEN 1 ELSE 0
          IN /\ _global_media_counter' = result.counter
             /\ downloaded_files' = result.files
             /\ IF wrapper.kind = "sleep"
                THEN /\ media_call' = <<[call EXCEPT !.attempt = @ + 1,
                                                     !.downloads = downloads,
                                                     !.failed = failed,
                                                     !.slept = Append(@, wrapper.delay)]>>
                     /\ UNCHANGED media_log
                ELSE /\ media_call' = <<>>
                     /\ media_log' = Append(media_log,
                            [msg_id |-> call.msg.id,
                             attempts |-> call.attempt + 1,
                             downloads |-> downloads,
                             failed |-> failed,
                             slept |-> call.slept,
                             result |-> IF wrapper.kind = "raise" THEN "raised"
                                        ELSE result.value])
    /\ UNCHANGED <<config, filter_message, filter_result, pipeline_vars, export_vars>>

MediaNext ==
    \/ ProcessMediaCall
    \/ ProcessMediaAttempt

MediaSpec == MediaInit /\ [][MediaNext]_vars

\* ------------------------------------------------------ export orchestrator
\* the title of a forum topic
ForumTitle(id) == IF id % 2 = 1 THEN <<"a">> ELSE <<"b">>

\* --include-topics / --exclude-topics
TopicLists == SUBSET {<<"A">>}

ExportConfigs ==
    [filter_include_substrings : SUBSET {<<"a">>},
     filter_exclude_substrings : {{}},
     filter_case_sensitive : {TRUE},
     max_concurrent_downloads : 1..MaxConcurrent,
     skip_media_types : {{}},
     max_file_size_mb : {DEFAULT_MAX_FILE_SIZE_MB},
     included_topics : TopicLists,
     excluded_topics : TopicLists]

_should_include_topic(topic_title) ==
    IF config.included_topics # {}
       /\ ~\E included_topic \in config.included_topics :
              Lower(topic_title) = Lower(included_topic)
    THEN FALSE
    ELSE IF config.excluded_topics # {}
            /\ \E excluded_topic \in config.excluded_topics :
                   Lower(topic_title) = Lower(excluded_topic)
    THEN FALSE
    ELSE TRUE

\* response.topics of GetForumTopicsRequest: topic ids, in the server's order
ForumResponses ==
    {r \in UNION {[1..n -> 1..MaxTopics] : n \in 1..MaxTopics} :
        \A i, j \in 1..Len(r) : r[i] = r[j] => i = j}

ForumTopicData(id) == [id |-> id, title |-> ForumTitle(id), messages |-> <<>>]

\* mutant: every topic of the response is loaded
LoadForumTopicsUnfiltered(response) ==
    [i \in 1..Len(response) |->
        [key |-> response[i], val |-> ForumTopicData(response[i])]]

\* the topics dict load_forum_topics builds from a forum's response
load_forum_topics(response) ==
    LET kept == SelectSeq(response, LAMBDA id : _should_include_topic(ForumTitle(id)))
    IN [i \in 1..Len(kept) |-> [key |-> kept[i], val |-> ForumTopicData(kept[i])]]

\* mutant: the default topic is created under another id
DefaultTopicsOtherId ==
    <<[key |-> DefaultTopicId + 1,
       val |-> [id |-> DefaultTopicId + 1, title |-> <<"General">>, messages |-> <<>>]]>>

\* the topics dict of a chat that is no forum (errors.RPCError)
DefaultTopics ==
    <<[key |-> DefaultTopicId,
       val |-> [id |-> DefaultTopicId, title |-> <<"General">>, messages |-> <<>>]]>>

\* topics[key] = val
DictPut(d, k, v) ==
    IF k \in DictKeys(d)
    THEN [i \in 1..Len(d) |-> IF d[i].key = k THEN [key |-> k, val |-> v] ELSE d[i]]
    ELSE Append(d, [key |-> k, val |-> v])

\* sum(len(topic.messages) for topic in topics.values())
TotalMessages(tps) == SumSeq([i \in 1..Len(tps) |-> Len(tps[i].val.messages)])

\* topic.messages.sort(key=lambda x: x.id, reverse=True)
SortNewestFirst(messages) ==
    StableSort(messages, [i \in 1..Len(messages) |-> 0 - messages[i].id])

\* sorted(topics.keys())
SortedKeys(tps) ==
    LET keys == [i \in 1..Len(tps) |-> tps[i].key] IN StableSort(keys, keys)

\* mutant: the records are left in the order they were appended
RenderUnsorted(tps) ==
    LET nonempty == SelectSeq(SortedKeys(tps),
                              LAMBDA id : DictGet(tps, id).messages # <<>>)
    IN [i \in 1..Len(nonempty) |-> DictGet(tps, nonempty[i])]

\* mutant: the topics without records are passed on too
RenderEveryTopic(tps) ==
    LET keys == SortedKeys(tps)
    IN [i \in 1..Len(keys) |->
           [DictGet(tps, keys[i]) EXCEPT !.messages = SortNewestFirst(@)]]

\* HTMLRenderer.render: sorted_topics, what the template is given
render(tps) ==
    LET nonempty == SelectSeq(SortedKeys(tps),
                              LAMBDA id : DictGet(tps, id).messages # <<>>)
    IN [i \in 1..Len(nonempty) |->
           [DictGet(tps, nonempty[i]) EXCEPT !.messages = SortNewestFirst(@)]]

\* the topics dict after render: the sort is in place
TopicsAfterRender(tps) ==
    [i \in 1..Len(tps) |->
        [key |-> tps[i].key,
         val |-> [tps[i].val EXCEPT !.messages = SortNewestFirst(@)]]]

\* HTMLRenderer.render_empty: empty_topics
render_empty == <<>>

\* the exception a stage of export_chat raises
ExceptionAt(stage) ==
    <<CASE stage \in {"setup", "save"} -> "ExportError"
        [] stage = "resolve" -> "ChatResolutionError"
        [] stage = "render" -> "TemplateRenderError"
        [] OTHER -> "Exception",
      stage>>

\* mutant: only the exporter's own exceptions are caught
ExceptExportErrorsOnly(e) ==
    [caught |-> e[1] # "Exception",
     result |-> [success |-> FALSE, total_messages |-> 0, total_topics |-> 0,
                 media_count |-> 0, error |-> e]]

\* `except Exception as e` of export_chat: every exception is caught and the
\* unsuccessful ExportResult is returned
export_chat_except(e) ==
    [caught |-> TRUE,
     result |-> [success |-> FALSE, total_messages |-> 0, total_topics |-> 0,
                 media_count |-> 0, error |-> e]]

\* what export_chat and the steps it runs never write
export_fixed_vars == <<config, filter_message, filter_result, messages_iter,
                       download_semaphore, media_call, media_log, link_vars,
                       retry_vars>>

\* the locals of process_messages_streaming up to the text pass
collect_vars == <<all_messages, grouped_messages, single_messages, filtered_grouped,
                  filtered_single, excluded_count, filtered_messages, all_items,
                  item_idx>>

\* the locals of _process_all_media_parallel
media_pass_vars == <<media_messages, batch_start, media_tasks, completed_count>>

\* export_chat is called
ExportInit ==
    /\ config \in ExportConfigs
    /\ FilterIdle
    /\ pc = "idle"
    /\ messages_iter = <<>>
    /\ all_messages = <<>>
    /\ grouped_messages = <<>>
    /\ single_messages = <<>>
    /\ filtered_grouped = <<>>
    /\ filtered_single = <<>>
    /\ excluded_count = 0
    /\ filtered_messages = <<>>
    /\ all_items = <<>>
    /\ item_idx = 0
    /\ topics = <<>>
    /\ media_messages = <<>>
    /\ batch_start = 0
    /\ media_tasks = <<>>
    /\ completed_count = 0
    /\ download_semaphore = config.max_concurrent_downloads
    /\ MediaIdle
    /\ export_pc = "setup"
    /\ export_attempt = 0
    /\ retry_attempt = 0
    /\ is_forum = FALSE
    /\ forum_response = <<>>
    /\ export_topics = <<>>
    /\ topic_idx = 0
    /\ current_topic_id = 0
    /\ processed_topics = <<>>
    /\ chat_size = 0
    /\ fetched = {}
    /\ filter_log = <<>>
    /\ render_log = <<>>
    /\ saved = <<>>
    /\ export_result = <<>>
    /\ LinkIdle
    /\ RetryIdle

\* An exception e leaves the try block of export_chat.  The handler returns the
\* unsuccessful result; an exception it did not catch would reach the wrapper of
\* retry_on_error, which runs export_chat again or raises to the caller.
Except(e) ==
    LET handler == export_chat_except(e)
        wrapper == retry_on_error(export_attempt, TRUE)
    IN IF handler.caught
       THEN /\ export_result' = <<handler.result>>
            /\ export_pc' = "returned"
            /\ UNCHANGED export_attempt
       ELSE /\ export_pc' = IF wrapper.kind = "sleep" THEN "setup" ELSE "raised"
            /\ export_attempt' = IF wrapper.kind = "sleep" THEN export_attempt + 1
                                 ELSE export_attempt
            /\ UNCHANGED export_result

\* file_manager.setup_directories() and the MediaProcessor
SetupDirectories ==
    /\ export_pc = "setup"
    /\ export_pc' = "connect"
    /\ UNCHANGED <<export_fixed_vars, filter_log, pc, collect_vars, topics, media_pass_vars,
                   media_state_vars, export_attempt, retry_attempt, is_forum,
                   forum_response, export_topics, topic_idx, current_topic_id,
                   processed_topics, chat_size, fetched, render_log, saved,
                   export_result>>

\* `async with self.telegram_client as client`
Connect ==
    /\ export_pc = "connect"
    /\ export_pc' = "resolve"
    /\ UNCHANGED <<export_fixed_vars, filter_log, pc, collect_vars, topics, media_pass_vars,
                   media_state_vars, export_attempt, retry_attempt, is_forum,
                   forum_response, export_topics, topic_idx, current_topic_id,
                   processed_topics, chat_size, fetched, render_log, saved,
                   export_result>>

\* one call of resolve_chat under its retry wrapper
ResolveChat ==
    /\ export_pc = "resolve"
    /\ \E raised \in BOOLEAN :
          LET wrapper == retry_on_error(retry_attempt, raised) IN
          IF wrapper.kind = "return"
          THEN /\ export_pc' = "load_topics"
               /\ retry_attempt' = 0
               /\ UNCHANGED <<export_result, export_attempt>>
          ELSE IF wrapper.kind = "sleep"
          THEN /\ retry_attempt' = retry_attempt + 1
               /\ UNCHANGED <<export_pc, export_result, export_attempt>>
          ELSE /\ Except(ExceptionAt("resolve"))
               /\ retry_attempt' = 0
    /\ UNCHANGED <<export_fixed_vars, filter_log, pc, collect_vars, topics, media_pass_vars,
                   media_state_vars, is_forum, forum_response, export_topics,
                   topic_idx, current_topic_id, processed_topics, chat_size, fetched,
                   render_log, saved>>

\* one call of load_forum_topics under its retry wrapper: the request is
\* answered (a forum), fails with errors.RPCError (no forum), or raises
LoadForumTopics ==
    /\ export_pc = "load_topics"
    /\ \/ \E response \in ForumResponses :
             /\ is_forum' = TRUE
             /\ forum_response' = response
             /\ export_topics' = load_forum_topics(response)
             /\ export_pc' = "topics_loop"
             /\ retry_attempt' = 0
             /\ UNCHANGED <<export_result, export_attempt>>
       \/ /\ is_forum' = FALSE
          /\ export_topics' = DefaultTopics
          /\ export_pc' = "topics_loop"
          /\ retry_attempt' = 0
          /\ UNCHANGED <<forum_response, export_result, export_attempt>>
       \/ LET wrapper == retry_on_error(retry_attempt, TRUE) IN
          /\ IF wrapper.kind = "sleep"
             THEN /\ retry_attempt' = retry_attempt + 1
                  /\ UNCHANGED <<export_pc, export_result, export_attempt>>
             ELSE /\ Except(ExceptionAt("load_topics"))
                  /\ retry_attempt' = 0
          /\ UNCHANGED <<is_forum, forum_response, export_topics>>
    /\ UNCHANGED <<export_fixed_vars, filter_log, pc, collect_vars, topics, media_pass_vars,
                   media_state_vars, topic_idx, current_topic_id, processed_topics,
                   chat_size, fetched, render_log, saved>>

\* process_messages_streaming is left: its locals up to the text pass are gone
LeavePipeline ==
    /\ pc' = "idle"
    /\ all_messages' = <<>>
    /\ grouped_messages' = <<>>
    /\ single_messages' = <<>>
    /\ filtered_grouped' = <<>>
    /\ filtered_single' = <<>>
    /\ excluded_count' = 0
    /\ filtered_messages' = <<>>
    /\ all_items' = <<>>
    /\ item_idx' = 0
    /\ topics' = <<>>

\* process_messages_streaming is entered: its locals are fresh
EnterPipeline ==
    /\ pc' = "collecting"
    /\ all_messages' = <<>>
    /\ grouped_messages' = <<>>
    /\ single_messages' = <<>>
    /\ filtered_grouped' = <<>>
    /\ filtered_single' = <<>>
    /\ excluded_count' = 0
    /\ filtered_messages' = <<>>
    /\ all_items' = <<>>
    /\ item_idx' = 0
    /\ media_messages' = <<>>
    /\ batch_start' = 0
    /\ media_tasks' = <<>>
    /\ completed_count' = 0

\* the forum loop takes the next topic: iter_messages(entity, topic_id), the
\* temporary dict, and the call of process_messages_streaming
NextTopic ==
    /\ export_pc = "topics_loop"
    /\ is_forum
    /\ topic_idx < Len(export_topics)
    /\ LET item == export_topics[topic_idx + 1] IN
          /\ current_topic_id' = item.key
          /\ fetched' = fetched \cup {item.key}
          /\ topics' = [t \in {item.key} |->
                           [id |-> item.key, title |-> item.val.title,
                            messages |-> <<>>]]
    /\ topic_idx' = topic_idx + 1
    /\ EnterPipeline
    /\ export_pc' = "process_messages"
    /\ UNCHANGED <<export_fixed_vars, filter_log, media_state_vars, export_attempt, retry_attempt,
                   is_forum, forum_response, export_topics, processed_topics,
                   chat_size, render_log, saved, export_result>>

\* the forum loop is over: topics = processed_topics
EndTopicsLoop ==
    /\ export_pc = "topics_loop"
    /\ is_forum
    /\ topic_idx = Len(export_topics)
    /\ export_topics' = processed_topics
    /\ export_pc' = "render"
    /\ UNCHANGED <<export_fixed_vars, filter_log, pc, collect_vars, topics, media_pass_vars,
                   media_state_vars, export_attempt, retry_attempt, is_forum,
                   forum_response, topic_idx, current_topic_id, processed_topics,
                   chat_size, fetched, render_log, saved, export_result>>

\* a chat that is no forum: process_messages_streaming(client.iter_messages(entity),
\* topics, topic_id=1)
ProcessChat ==
    /\ export_pc = "topics_loop"
    /\ ~is_forum
    /\ current_topic_id' = DefaultTopicId
    /\ fetched' = fetched \cup {0}
    /\ topics' = [t \in DictKeys(export_topics) |-> DictGet(export_topics, t)]
    /\ EnterPipeline
    /\ export_pc' = "process_messages"
    /\ UNCHANGED <<export_fixed_vars, filter_log, media_state_vars, export_attempt, retry_attempt,
                   is_forum, forum_response, export_topics, topic_idx,
                   processed_topics, chat_size, render_log, saved, export_result>>

\* a message of the chat that is neither a service message nor part of an
\* album, sent in a second of its own
ChatMessage(id, kind) ==
    [id |-> id, grouped_id |-> 0, date |-> id, action |-> FALSE,
     message |-> kind[1], media |-> kind[2], size |-> 0, reply_to |-> NoReply,
     sender |-> DefaultSender, reactions |-> NoReactions]

\* `async for msg in messages_iter`, to the end: the iterator delivers the
\* messages of the topic (of the chat), newest first
CollectAll ==
    /\ export_pc = "process_messages"
    /\ pc = "collecting"
    /\ \E k \in 0..(MaxChatMsgs - chat_size) :
          /\ \E kinds \in [1..k -> PipelineTexts \X MediaKinds] :
                all_messages' = [i \in 1..k |->
                                    ChatMessage(chat_size + k + 1 - i, kinds[i])]
          /\ chat_size' = chat_size + k
    /\ pc' = "filtering"
    /\ UNCHANGED <<export_fixed_vars, filter_log, grouped_messages, single_messages,
                   filtered_grouped, filtered_single, excluded_count,
                   filtered_messages, all_items, item_idx, topics, media_pass_vars,
                   media_state_vars, export_pc, export_attempt, retry_attempt, is_forum,
                   forum_response, export_topics, topic_idx, current_topic_id,
                   processed_topics, fetched, render_log, saved, export_result>>

\* _group_messages, _filter_grouped_messages, the early return when nothing is
\* left, else filtered_messages and the sorted items
GroupAndFilter ==
    /\ export_pc = "process_messages"
    /\ pc = "filtering"
    /\ LET g == _group_messages(all_messages)
           r == _filter_grouped_messages(g.grouped, g.single)
           filtered_message_count ==
               SumSeq([i \in 1..Len(r.grouped) |-> Len(r.grouped[i].val)]) + Len(r.single)
       IN /\ grouped_messages' = g.grouped
          /\ single_messages' = g.single
          /\ filtered_grouped' = r.grouped
          /\ filtered_single' = r.single
          /\ excluded_count' = r.excluded
          /\ filter_log' = Append(filter_log, filtered_message_count)
          /\ IF filtered_message_count = 0
             THEN /\ pc' = "empty"
                  /\ topics' = EnsureTopic(topics, current_topic_id)
                  /\ UNCHANGED <<filtered_messages, all_items>>
             ELSE /\ pc' = "text_pass"
                  /\ filtered_messages' =
                        Flatten([i \in 1..Len(r.grouped) |-> r.grouped[i].val]) \o r.single
                  /\ all_items' = _create_sorted_items(r.grouped, r.single)
                  /\ UNCHANGED topics
    /\ UNCHANGED <<export_fixed_vars, all_messages, item_idx, media_pass_vars,
                   media_state_vars, export_pc, export_attempt, retry_attempt,
                   is_forum, forum_response, export_topics, topic_idx,
                   current_topic_id, processed_topics, chat_size, fetched, render_log,
                   saved, export_result>>

\* the text loop over all_items, to its end
RECURSIVE TextLoop(_, _, _)
TextLoop(items, tps, topic_id) ==
    IF items = <<>> THEN tps
    ELSE LET item == Head(items)
             next == IF item.item_type = "group"
                     THEN _process_message_group_text_only(item.data, tps, topic_id)
                     ELSE _process_single_message_text_only(item.data[1], tps, topic_id)
         IN TextLoop(Tail(items), next, topic_id)

\* the text pass, and _process_all_media_parallel up to its batch loop
TextPass ==
    /\ export_pc = "process_messages"
    /\ pc = "text_pass"
    /\ topics' = TextLoop(all_items, topics, current_topic_id)
    /\ item_idx' = Len(all_items)
    /\ media_messages' = SelectSeq(filtered_messages,
                            LAMBDA m : m.media # "none" /\ ~should_skip_media(m))
    /\ pc' = IF media_messages' = <<>> THEN "done" ELSE "batch_loop"
    /\ UNCHANGED <<export_fixed_vars, all_messages, grouped_messages, single_messages,
                   filtered_grouped, filtered_single, excluded_count,
                   filtered_messages, all_items, batch_start, media_tasks,
                   completed_count, media_state_vars, export_vars>>

\* the end of the current batch in media_messages
BatchEnd == Min(Len(media_messages), batch_start + config.max_concurrent_downloads)

\* a task of the current batch runs process_media from its start to its end
MediaTask ==
    /\ export_pc = "process_messages"
    /\ pc = "batch_loop"
    /\ Len(media_tasks) < BatchEnd
    /\ \E outcome \in DownloadOutcomes :
          LET msg == media_messages[Len(media_tasks) + 1]
              result == process_media(msg, outcome)
          IN /\ media_tasks' = Append(media_tasks,
                    [msg_id |-> msg.id, state |-> "done",
                     result |-> IF result.kind = "raise" THEN "Exception"
                                ELSE result.value,
                     filename |-> _generate_unique_filename(msg, result.counter),
                     failed |-> result.invoked /\ outcome = "raised"])
             /\ _global_media_counter' = result.counter
             /\ downloaded_files' = result.files
    /\ UNCHANGED <<export_fixed_vars, pc, collect_vars, topics, media_messages,
                   batch_start, completed_count, export_vars>>

\* gather() has returned for the batch: its results are merged in task order
MergeBatch ==
    /\ export_pc = "process_messages"
    /\ pc = "batch_loop"
    /\ Len(media_tasks) = BatchEnd
    /\ topics' = MergeResults(BatchTasks, topics, current_topic_id)
    /\ completed_count' = completed_count + Len(BatchTasks)
    /\ batch_start' = batch_start + config.max_concurrent_downloads
    /\ pc' = IF batch_start' < Len(media_messages) THEN "batch_loop" ELSE "done"
    /\ UNCHANGED <<export_fixed_vars, collect_vars, media_messages, media_tasks,
                   media_state_vars, export_vars>>

\* the dict the pipeline returns: the dict it was given (the key topic_id is
\* in it), with its insertion order
TopicsDict(tps, order) ==
    [i \in 1..Len(order) |-> [key |-> order[i], val |-> tps[order[i]]]]

\* process_messages_streaming returns topics
ReturnTopics ==
    /\ export_pc = "process_messages"
    /\ pc \in {"done", "empty"}
    /\ LeavePipeline
    /\ IF is_forum
       THEN /\ processed_topics' = DictPut(processed_topics, current_topic_id,
                                           topics[current_topic_id])
            /\ export_pc' = "topics_loop"
            /\ UNCHANGED export_topics
       ELSE /\ export_topics' =
                  TopicsDict(topics, [i \in 1..Len(export_topics) |-> export_topics[i].key])
            /\ export_pc' = "render"
            /\ UNCHANGED processed_topics
    /\ UNCHANGED <<export_fixed_vars, filter_log, media_pass_vars,
                   media_state_vars, export_attempt, retry_attempt, is_forum,
                   forum_response, topic_idx, current_topic_id, chat_size, fetched,
                   render_log, saved, export_result>>

\* mutant: render is called whatever the number of records
RenderWithoutEmptyCheck ==
    /\ export_pc = "render"
    /\ render_log' = Append(render_log,
                         [method |-> "render", topics |-> render(export_topics)])
    /\ export_topics' = TopicsAfterRender(export_topics)
    /\ export_pc' = "save"
    /\ UNCHANGED <<export_fixed_vars, filter_log, pc, collect_vars, topics,
                   media_pass_vars, media_state_vars, export_attempt, retry_attempt,
                   is_forum, forum_response, topic_idx, current_topic_id,
                   processed_topics, chat_size, fetched, saved, export_result>>

\* total_messages, then render_empty or render
Render ==
    /\ export_pc = "render"
    /\ IF export_topics = <<>> \/ TotalMessages(export_topics) = 0
       THEN /\ render_log' = Append(render_log,
                                [method |-> "render_empty", topics |-> render_empty])
            /\ UNCHANGED export_topics
       ELSE /\ render_log' = Append(render_log,
                                [method |-> "render", topics |-> render(export_topics)])
            /\ export_topics' = TopicsAfterRender(export_topics)
    /\ export_pc' = "save"
    /\ UNCHANGED <<export_fixed_vars, filter_log, pc, collect_vars, topics, media_pass_vars,
                   media_state_vars, export_attempt, retry_attempt, is_forum,
                   forum_response, topic_idx, current_topic_id, processed_topics,
                   chat_size, fetched, saved, export_result>>

\* file_manager.save_export(html_content)
SaveExport ==
    /\ export_pc = "save"
    /\ saved' = Append(saved, render_log[Len(render_log)])
    /\ export_pc' = "finish"
    /\ UNCHANGED <<export_fixed_vars, filter_log, pc, collect_vars, topics, media_pass_vars,
                   media_state_vars, export_attempt, retry_attempt, is_forum,
                   forum_response, export_topics, topic_idx, current_topic_id,
                   processed_topics, chat_size, fetched, render_log, export_result>>

\* copy_required_files, the successful ExportResult, and the client's disconnect
Finish ==
    /\ export_pc = "finish"
    /\ export_result' = <<[success |-> TRUE,
                           total_messages |-> TotalMessages(export_topics),
                           total_topics |-> Len(export_topics),
                           media_count |-> Cardinality(downloaded_files),
                           error |-> <<>>]>>
    /\ export_pc' = "returned"
    /\ UNCHANGED <<export_fixed_vars, filter_log, pc, collect_vars, topics, media_pass_vars,
                   media_state_vars, export_attempt, retry_attempt, is_forum,
                   forum_response, export_topics, topic_idx, current_topic_id,
                   processed_topics, chat_size, fetched, render_log, saved>>

\* the stage export_chat is in, where a step of it can raise
Stage ==
    CASE export_pc \in {"setup", "connect", "render", "save", "finish"} -> export_pc
      [] export_pc = "process_messages" /\ pc \in {"collecting", "filtering", "text_pass"}
            -> pc
      [] OTHER -> "none"

\* mutant: the forum loop drops a topic whose processing raised and goes on
RaiseSkipsTopic ==
    /\ Stage # "none"
    /\ IF is_forum /\ export_pc = "process_messages"
       THEN /\ export_pc' = "topics_loop"
            /\ UNCHANGED <<export_result, export_attempt, export_topics,
                           processed_topics, topic_idx, current_topic_id, chat_size>>
       ELSE /\ Except(ExceptionAt(Stage))
            /\ export_topics' = <<>>
            /\ processed_topics' = <<>>
            /\ topic_idx' = 0
            /\ current_topic_id' = 0
            /\ chat_size' = 0
    /\ LeavePipeline
    /\ UNCHANGED <<export_fixed_vars, filter_log, media_pass_vars, media_state_vars,
                   retry_attempt, is_forum, forum_response, fetched, render_log, saved>>

\* a step of the current stage raises an Exception: the stack is unwound to
\* the handler of export_chat, the locals below it are gone
Raise ==
    /\ Stage # "none"
    /\ Except(ExceptionAt(Stage))
    /\ LeavePipeline
    /\ export_topics' = <<>>
    /\ processed_topics' = <<>>
    /\ topic_idx' = 0
    /\ current_topic_id' = 0
    /\ chat_size' = 0
    /\ UNCHANGED <<export_fixed_vars, filter_log, media_pass_vars, media_state_vars, retry_attempt,
                   is_forum, forum_response, fetched, render_log, saved>>

ExportNext ==
    \/ SetupDirectories
    \/ Connect
    \/ ResolveChat
    \/ LoadForumTopics
    \/ NextTopic
    \/ EndTopicsLoop
    \/ ProcessChat
    \/ CollectAll
    \/ GroupAndFilter
    \/ TextPass
    \/ MediaTask
    \/ MergeBatch
    \/ ReturnTopics
    \/ Render
    \/ SaveExport
    \/ Finish
    \/ Raise

ExportSpec == ExportInit /\ [][ExportNext]_vars

\* --------------------------------------------- message record specification
\* One message goes through the text pass and the media pass: its record is
\* built with the reply information and the skip reason, then its media is
\* downloaded or skipped.

\* --skip-media-types as given on the command line
SkipTypeArgs == {{}, {"photo"}, {"document"}, {"video", "gif"}}

\* validate_and_create_config: skip_media_types of the ExportConfig
validate_and_create_config(skip_media, skip_media_types) ==
    IF skip_media THEN skip_media_types \cup MediaTypes ELSE skip_media_types

RecordConfigs ==
    {[filter_include_substrings |-> {},
      filter_exclude_substrings |-> {},
      filter_case_sensitive |-> TRUE,
      max_concurrent_downloads |-> 1,
      skip_media_types |-> validate_and_create_config(skip_media, types),
      max_file_size_mb |-> mb] :
        skip_media \in BOOLEAN, types \in SkipTypeArgs, mb \in 1..MaxFileSizeMb}

\* the sorts of media of a message
AllMediaKinds ==
    {"none", "photo", "video", "video_note", "voice", "audio", "gif", "document",
     "webpage"}

\* document sizes in bytes: none, and around each limit
DocumentSizes ==
    {0} \cup UNION {{mb * 1024 * 1024 - 1, mb * 1024 * 1024, mb * 1024 * 1024 + 1} :
                      mb \in 1..MaxFileSizeMb}

\* Optional[int] message ids: None (<<>>) or an id
OptionalIds == {<<>>} \cup {<<i>> : i \in 1..MaxReplyId}

\* msg.reply_to
ReplyHeaders ==
    {NoReply,
     [kind |-> "story", reply_to_msg_id |-> <<>>, forum_topic |-> FALSE,
      reply_to_top_id |-> <<>>]}
    \cup [kind : {"message"}, reply_to_msg_id : OptionalIds, forum_topic : BOOLEAN,
          reply_to_top_id : OptionalIds]

\* a message that is neither a service message nor part of an album, with a
\* text or without one; only a document has a size
RecordMessages ==
    {m \in [id : {MaxReplyId + 1}, grouped_id : {0}, date : {1}, action : {FALSE},
            message : {<<>>, <<"a">>}, media : AllMediaKinds, size : DocumentSizes,
            reply_to : ReplyHeaders, sender : {DefaultSender},
            reactions : {NoReactions}] :
        IsMessageMediaDocument(m) \/ m.size = 0}

RecordInit ==
    /\ config \in RecordConfigs
    /\ FilterIdle
    /\ PipelineIdle
    /\ MediaIdle
    /\ ExportIdle
    /\ LinkIdle
    /\ RetryIdle

\* the text pass for the message
CreateRecord ==
    /\ all_messages = <<>>
    /\ \E msg \in RecordMessages :
          /\ all_messages' = <<msg>>
          /\ topics' = _process_single_message_text_only(msg, topics, DefaultTopicId)
    /\ UNCHANGED <<config, filter_message, filter_result, pc, messages_iter,
                   grouped_messages, single_messages, filtered_grouped, filtered_single,
                   excluded_count, filtered_messages, all_items, item_idx,
                   media_messages, batch_start, media_tasks, completed_count,
                   download_semaphore, media_state_vars, media_api_vars, export_vars>>

\* the media pass for the message: it is selected unless should_skip_media,
\* process_media is called in a task for a selected message, and the result
\* of the joined task is merged into the records
RecordMediaPass ==
    /\ all_messages # <<>>
    /\ media_log = <<>>
    /\ \E outcome \in TaskOutcomes :
          LET msg == all_messages[1]
              selected == SelectSeq(all_messages,
                              LAMBDA m : m.media # "none" /\ ~should_skip_media(m))
              result == process_media(msg, outcome)
          IN /\ media_messages' = selected
             /\ IF selected = <<>>
                THEN /\ media_log' = <<[msg_id |-> msg.id, attempts |-> 0,
                                        downloads |-> 0, failed |-> 0, slept |-> <<>>,
                                        result |-> "None"]>>
                     /\ UNCHANGED <<topics, media_state_vars>>
                ELSE /\ media_log' = <<[msg_id |-> msg.id, attempts |-> 1,
                                        downloads |-> IF result.invoked THEN 1 ELSE 0,
                                        failed |-> IF result.invoked /\ outcome = "raised"
                                                   THEN 1 ELSE 0,
                                        slept |-> <<>>,
                                        result |-> result.value]>>
                     /\ _global_media_counter' = result.counter
                     /\ downloaded_files' = result.files
                     /\ topics' = MergeResults(<<[msg_id |-> msg.id,
                                                  result |-> result.value]>>,
                                               topics, DefaultTopicId)
    /\ UNCHANGED <<config, filter_message, filter_result, pc, messages_iter,
                   all_messages, grouped_messages, single_messages, filtered_grouped,
                   filtered_single, excluded_count, filtered_messages, all_items,
                   item_idx, batch_start, media_tasks, completed_count,
                   download_semaphore, media_call, export_vars>>

RecordNext ==
    \/ CreateRecord
    \/ RecordMediaPass

RecordSpec == RecordInit /\ [][RecordNext]_vars

\* ---------------------------------------------------- album specification
\* The record of one album of two messages in a flat chat: the members differ
\* in text, media, reply header, sender and reactions; the record is built by
\* the text pass and the media of the members is downloaded one at a time.

AlbumConfigs ==
    {c \in RecordConfigs : c.skip_media_types \in {{}, {"photo"}}
                           /\ c.max_file_size_mb = 1}

\* a reply to the first message of the chat
ReplyToFirst ==
    [kind |-> "message", reply_to_msg_id |-> <<1>>, forum_topic |-> FALSE,
     reply_to_top_id |-> <<>>]

\* a member of the album with the given id
AlbumMessages(id) ==
    [id : {id}, grouped_id : {1}, date : {DateOf(id)}, action : {FALSE},
     message : PipelineTexts, media : MediaKinds, size : {0},
     reply_to : {NoReply, ReplyToFirst},
     sender : {DefaultSender, <<"bob">>},
     reactions : {NoReactions, <<[emoticon |-> "+", count |-> 1]>>}]

AlbumInit ==
    /\ config \in AlbumConfigs
    /\ FilterIdle
    /\ PipelineIdle
    /\ MediaIdle
    /\ ExportIdle
    /\ LinkIdle
    /\ RetryIdle

\* process_messages_streaming up to the end of the text pass and the selection
\* of the media messages; the iterator has delivered the newer member first
CreateAlbumRecord ==
    /\ all_messages = <<>>
    /\ \E newer \in AlbumMessages(3), older \in AlbumMessages(2) :
          LET collected == <<newer, older>>
              groups == _group_messages(collected)
              filtered == _filter_grouped_messages(groups.grouped, groups.single)
              items == _create_sorted_items(filtered.grouped, filtered.single)
              included == Flatten([i \in 1..Len(filtered.grouped) |->
                                      filtered.grouped[i].val]) \o filtered.single
          IN /\ all_messages' = collected
             /\ grouped_messages' = groups.grouped
             /\ filtered_grouped' = filtered.grouped
             /\ filtered_messages' = included
             /\ all_items' = items
             /\ topics' = _process_message_group_text_only(items[1].data, topics,
                                                          DefaultTopicId)
             /\ media_messages' = SelectSeq(included,
                                     LAMBDA m : m.media # "none" /\ ~should_skip_media(m))
    /\ UNCHANGED <<config, filter_message, filter_result, pc, messages_iter,
                   single_messages, filtered_single, excluded_count, item_idx,
                   batch_start, media_tasks, completed_count, download_semaphore,
                   media_state_vars, media_api_vars, export_vars>>

\* one batch of the media pass (max_concurrent_downloads is 1): process_media
\* for the next media message, and the merge of its result
AlbumMediaBatch ==
    /\ all_messages # <<>>
    /\ Len(media_log) < Len(media_messages)
    /\ \E outcome \in TaskOutcomes :
          LET msg == media_messages[Len(media_log) + 1]
              result == process_media(msg, outcome)
          IN /\ media_log' = Append(media_log,
                                [msg_id |-> msg.id, attempts |-> 1,
                                 downloads |-> IF result.invoked THEN 1 ELSE 0,
                                 failed |-> IF result.invoked /\ outcome = "raised"
                                            THEN 1 ELSE 0,
                                 slept |-> <<>>,
                                 result |-> result.value])
             /\ _global_media_counter' = result.counter
             /\ downloaded_files' = result.files
             /\ topics' = MergeResults(<<[msg_id |-> msg.id, result |-> result.value]>>,
                                       topics, DefaultTopicId)
    /\ UNCHANGED <<config, filter_message, filter_result, pc, messages_iter,
                   all_messages, grouped_messages, single_messages, filtered_grouped,
                   filtered_single, excluded_count, filtered_messages, all_items,
                   item_idx, media_messages, batch_start, media_tasks, completed_count,
                   download_semaphore, media_call, export_vars>>

AlbumNext ==
    \/ CreateAlbumRecord
    \/ AlbumMediaBatch

AlbumSpec == AlbumInit /\ [][AlbumNext]_vars

\* ------------------------------------------------ link rewriter specification
\* HTMLMessageRenderer._transform_telegram_links on the text of a message.
\* msg.text is the HTML telethon makes of the message entities.  It is held as
\* the sequence of its anchors <a href="..."attributes>text</a>, which do not
\* nest; the text between them, which no pattern matches, is left out.  An href is a scheme and the characters after it, the
\* attributes after the href are a list of name="value", a value a list of words.

\* the characters an href is made of after https://t.me/c/
HrefChars == {"1", "2", "/", "?"}

\* \d
IsDigit(c) == c \in {"1", "2"}

DigitValue(c) == IF c = "1" THEN 1 ELSE 2

\* int() of a string of digits
RECURSIVE int(_)
int(s) == IF s = <<>> THEN 0 ELSE 10 * int(SubSeq(s, 1, Len(s) - 1)) + DigitValue(s[Len(s)])

\* \d+ matches s[a..b]
Digits(s, a, b) == a <= b /\ \A i \in a..b : IsDigit(s[i])

\* the literal start of the three patterns
TELEGRAM_LINK == "https://t.me/c/"

IsTelegramAnchor(part) == part.kind = "a" /\ part.scheme = TELEGRAM_LINK

\* The groups of the matches of (\d+)/(\d+)/(\d+)(?:\?[^"]*)??" on the href of
\* an anchor: every way the backtracking matcher can split the characters.
\* The set has at most one element, the digits being delimited.
FORUM_MESSAGE_LINK_PATTERN(part) ==
    IF ~IsTelegramAnchor(part) THEN {}
    ELSE LET t == part.tail
             n == Len(t)
         IN {[chat |-> SubSeq(t, 1, x[1]), topic |-> SubSeq(t, x[1] + 2, x[2]),
              message |-> SubSeq(t, x[2] + 2, x[3])] :
                x \in {y \in (1..n) \X (1..n) \X (1..n) :
                         /\ Digits(t, 1, y[1])
                         /\ y[1] + 1 <= n /\ t[y[1] + 1] = "/"
                         /\ Digits(t, y[1] + 2, y[2])
                         /\ y[2] + 1 <= n /\ t[y[2] + 1] = "/"
                         /\ Digits(t, y[2] + 2, y[3])
                         /\ (y[3] = n \/ t[y[3] + 1] = "?")}}

\* mutant: the pattern has no negative lookahead and is not closed by the quote
TopicPatternUnclosed(part) ==
    IF ~IsTelegramAnchor(part) THEN {}
    ELSE LET t == part.tail
             n == Len(t)
             splits == {y \in (1..n) \X (1..n) :
                          /\ Digits(t, 1, y[1])
                          /\ y[1] + 1 <= n /\ t[y[1] + 1] = "/"
                          /\ Digits(t, y[1] + 2, y[2])
                          /\ (y[2] = n \/ ~IsDigit(t[y[2] + 1]))}
         IN {[chat |-> SubSeq(t, 1, x[1]), topic |-> SubSeq(t, x[1] + 2, x[2]),
              message |-> <<>>] : x \in splits}

\* (\d+)/(\d+)(?!/\d+)(?:\?[^"]*)??"
FORUM_TOPIC_LINK_PATTERN(part) ==
    IF ~IsTelegramAnchor(part) THEN {}
    ELSE LET t == part.tail
             n == Len(t)
         IN {[chat |-> SubSeq(t, 1, x[1]), topic |-> SubSeq(t, x[1] + 2, x[2]),
              message |-> <<>>] :
                x \in {y \in (1..n) \X (1..n) :
                         /\ Digits(t, 1, y[1])
                         /\ y[1] + 1 <= n /\ t[y[1] + 1] = "/"
                         /\ Digits(t, y[1] + 2, y[2])
                         /\ ~(y[2] + 2 <= n /\ t[y[2] + 1] = "/" /\ IsDigit(t[y[2] + 2]))
                         /\ (y[2] = n \/ t[y[2] + 1] = "?")}}

\* (\d+)/(\d+)(?:\?[^"]*)??"
REGULAR_MESSAGE_LINK_PATTERN(part) ==
    IF ~IsTelegramAnchor(part) THEN {}
    ELSE LET t == part.tail
             n == Len(t)
         IN {[chat |-> SubSeq(t, 1, x[1]), topic |-> <<>>,
              message |-> SubSeq(t, x[1] + 2, x[2])] :
                x \in {y \in (1..n) \X (1..n) :
                         /\ Digits(t, 1, y[1])
                         /\ y[1] + 1 <= n /\ t[y[1] + 1] = "/"
                         /\ Digits(t, y[1] + 2, y[2])
                         /\ (y[2] = n \/ t[y[2] + 1] = "?")}}

\* `"class=" in attributes`
HasClass(attributes) == \E i \in 1..Len(attributes) : attributes[i].name = "class"

\* the class internal-link is appended to the value of class, or the attribute
\* is put in front of the others
AddInternalLinkClass(attributes) ==
    IF HasClass(attributes)
    THEN [i \in 1..Len(attributes) |->
            IF attributes[i].name = "class"
            THEN [attributes[i] EXCEPT !.value = Append(@, "internal-link")]
            ELSE attributes[i]]
    ELSE <<[name |-> "class", value |-> <<"internal-link">>]>> \o attributes

\* `self.current_chat_id and chat_id != self.current_chat_id`
IsExternal(chat) ==
    /\ message_renderer[1].current_chat_id # 0
    /\ int(chat) # message_renderer[1].current_chat_id

\* mutant: the topic id is not attached
ReplaceForumMessageWithoutTopic(part, match) ==
    IF IsExternal(match.chat) THEN part
    ELSE [kind |-> "a", scheme |-> "#msg-", tail |-> match.message,
          attributes |-> AddInternalLinkClass(part.attributes)
                         \o <<[name |-> "data-msg-id", value |-> match.message]>>,
          text |-> part.text]

_replace_forum_message_link(part, match) ==
    IF IsExternal(match.chat) THEN part
    ELSE [kind |-> "a", scheme |-> "#msg-", tail |-> match.message,
          attributes |-> AddInternalLinkClass(part.attributes)
                         \o <<[name |-> "data-msg-id", value |-> match.message],
                              [name |-> "data-topic-id", value |-> match.topic]>>,
          text |-> part.text]

_replace_forum_topic_link(part, match) ==
    IF IsExternal(match.chat) THEN part
    ELSE [kind |-> "a", scheme |-> "#topic-", tail |-> match.topic,
          attributes |-> AddInternalLinkClass(part.attributes)
                         \o <<[name |-> "data-topic-id", value |-> match.topic]>>,
          text |-> part.text]

\* mutant: the href is kept
ReplaceRegularKeepingHref(part, match) ==
    IF IsExternal(match.chat) THEN part
    ELSE [part EXCEPT !.attributes =
            AddInternalLinkClass(@)
            \o <<[name |-> "data-msg-id", value |-> match.message]>>]

_replace_regular_message_link(part, match) ==
    IF IsExternal(match.chat) THEN part
    ELSE [kind |-> "a", scheme |-> "#msg-", tail |-> match.message,
          attributes |-> AddInternalLinkClass(part.attributes)
                         \o <<[name |-> "data-msg-id", value |-> match.message]>>,
          text |-> part.text]

\* FORUM_MESSAGE_LINK_PATTERN.sub(self._replace_forum_message_link, html_content):
\* every anchor the pattern matches is replaced by what the method returns
SubForumMessageLinks(html_content) ==
    [i \in 1..Len(html_content) |->
        LET matches == FORUM_MESSAGE_LINK_PATTERN(html_content[i])
        IN IF matches = {} THEN html_content[i]
           ELSE _replace_forum_message_link(html_content[i],
                                            CHOOSE match \in matches : TRUE)]

SubForumTopicLinks(html_content) ==
    [i \in 1..Len(html_content) |->
        LET matches == FORUM_TOPIC_LINK_PATTERN(html_content[i])
        IN IF matches = {} THEN html_content[i]
           ELSE _replace_forum_topic_link(html_content[i],
                                          CHOOSE match \in matches : TRUE)]

SubRegularMessageLinks(html_content) ==
    [i \in 1..Len(html_content) |->
        LET matches == REGULAR_MESSAGE_LINK_PATTERN(html_content[i])
        IN IF matches = {} THEN html_content[i]
           ELSE _replace_regular_message_link(html_content[i],
                                              CHOOSE match \in matches : TRUE)]

_transform_telegram_links(html_content) ==
    IF message_renderer[1].is_forum
    THEN SubForumTopicLinks(SubForumMessageLinks(html_content))
    ELSE SubRegularMessageLinks(html_content)

\* entity.id of the chat, and a second id the first is a prefix of
ChatIds == {1, 12}

\* HTMLMessageRenderer(current_chat_id=entity.id, is_forum=is_forum)
Renderers == [current_chat_id : ChatIds, is_forum : BOOLEAN]

\* every href of https://t.me/c/ up to the length bound
Tails == UNION {[1..k -> HrefChars] : k \in 1..MaxHrefLen}

\* the attributes after the href: none, a class, another attribute
AttributeLists ==
    {<<>>, <<[name |-> "class", value |-> <<"c">>]>>,
     <<[name |-> "target", value |-> <<"t">>]>>}

TelegramAnchors ==
    [kind : {"a"}, scheme : {TELEGRAM_LINK}, tail : Tails, attributes : AttributeLists,
     text : {"x"}]

\* what else a text holds: a link to another site, a second link to a topic
\* or message of a chat
OtherParts ==
    {[kind |-> "a", scheme |-> "https://example.com/", tail |-> <<"1", "/", "2">>,
      attributes |-> <<>>, text |-> "y"],
     [kind |-> "a", scheme |-> TELEGRAM_LINK, tail |-> <<"1", "/", "2">>,
      attributes |-> <<>>, text |-> "y"]}

\* a text with a link of every form and one of the other parts after it
Bodies == {<<a, p>> : a \in TelegramAnchors, p \in OtherParts}

\* export_chat has created the renderer and the text pass has reached a
\* message with a text
LinkInit ==
    /\ config \in MediaConfigs
    /\ FilterIdle
    /\ PipelineIdle
    /\ MediaIdle
    /\ ExportIdle
    /\ message_renderer \in {<<r>> : r \in Renderers}
    /\ msg_text \in Bodies
    /\ html_text = <<>>
    /\ transform_calls = 0
    /\ RetryIdle

\* render_message: html_text = self._transform_telegram_links(msg.text)
RenderMessage ==
    /\ transform_calls = 0
    /\ html_text' = _transform_telegram_links(msg_text)
    /\ transform_calls' = 1
    /\ UNCHANGED <<message_renderer, msg_text>>
    /\ UNCHANGED <<config, filter_message, filter_result, pipeline_vars,
                   media_state_vars, media_api_vars, export_pc, export_attempt,
                   retry_attempt, is_forum, forum_response, export_topics, topic_idx,
                   current_topic_id, processed_topics, chat_size, fetched, filter_log,
                   render_log, saved, export_result, retry_vars>>

\* _transform_telegram_links is given what it returned
TransformAgain ==
    /\ transform_calls = 1
    /\ html_text' = _transform_telegram_links(html_text)
    /\ transform_calls' = 2
    /\ UNCHANGED <<message_renderer, msg_text>>
    /\ UNCHANGED <<config, filter_message, filter_result, pipeline_vars,
                   media_state_vars, media_api_vars, export_pc, export_attempt,
                   retry_attempt, is_forum, forum_response, export_topics, topic_idx,
                   current_topic_id, processed_topics, chat_size, fetched, filter_log,
                   render_log, saved, export_result, retry_vars>>

LinkNext ==
    \/ RenderMessage
    \/ TransformAgain

LinkSpec == LinkInit /\ [][LinkNext]_vars

\* ------------------------------------------------- retry specification
\* A wrapper of retry_on_error with the defaults around an operation of the
\* Telegram client: the operation is called, the wrapper looks at how it ended,
\* and sleeps before the next attempt.

\* the operations decorated with @retry_on_error()
RetriedOperations == {"resolve_chat", "load_forum_topics"}

\* how a call of the operation ends: it returns a value or raises an Exception
CallOutcomes ==
    [raised : {FALSE}, value : {"entity", "topics"}]
    \cup [raised : {TRUE}, value : {"ChatResolutionError", "TelegramAPIError"}]

RetryInit ==
    /\ config \in MediaConfigs
    /\ FilterIdle
    /\ PipelineIdle
    /\ MediaIdle
    /\ ExportIdle
    /\ LinkIdle
    /\ retry_func \in RetriedOperations
    /\ retry_pc = "calling"
    /\ retry_calls = <<>>
    /\ retry_slept = <<>>
    /\ retry_result = <<>>

\* `await func(*args, **kwargs)` returns or raises
CallFunc ==
    /\ retry_pc = "calling"
    /\ \E outcome \in CallOutcomes : retry_calls' = Append(retry_calls, outcome)
    /\ retry_pc' = "called"
    /\ UNCHANGED <<retry_func, retry_slept, retry_result, retry_attempt>>
    /\ UNCHANGED <<config, filter_message, filter_result, pipeline_vars,
                   media_state_vars, media_api_vars, export_pc, export_attempt,
                   is_forum, forum_response, export_topics, topic_idx,
                   current_topic_id, processed_topics, chat_size, fetched, filter_log,
                   render_log, saved, export_result, link_vars>>

\* the wrapper returns the value, re-raises the exception, or starts to sleep
WrapperStep ==
    /\ retry_pc = "called"
    /\ LET last == retry_calls[Len(retry_calls)]
           wrapper == retry_on_error(retry_attempt, last.raised)
       IN IF wrapper.kind = "return"
          THEN /\ retry_result' = <<last>>
               /\ retry_pc' = "returned"
               /\ UNCHANGED retry_slept
          ELSE IF wrapper.kind = "raise"
          THEN /\ retry_result' = <<last>>
               /\ retry_pc' = "raised"
               /\ UNCHANGED retry_slept
          ELSE /\ retry_slept' = Append(retry_slept, wrapper.delay)
               /\ retry_pc' = "sleeping"
               /\ UNCHANGED retry_result
    /\ UNCHANGED <<retry_func, retry_calls, retry_attempt>>
    /\ UNCHANGED <<config, filter_message, filter_result, pipeline_vars,
                   media_state_vars, media_api_vars, export_pc, export_attempt,
                   is_forum, forum_response, export_topics, topic_idx,
                   current_topic_id, processed_topics, chat_size, fetched, filter_log,
                   render_log, saved, export_result, link_vars>>

\* asyncio.sleep is over: the next turn of `for attempt in range(max_attempts)`
SleepEnds ==
    /\ retry_pc = "sleeping"
    /\ retry_attempt' = retry_attempt + 1
    /\ retry_pc' = "calling"
    /\ UNCHANGED <<retry_func, retry_calls, retry_slept, retry_result>>
    /\ UNCHANGED <<config, filter_message, filter_result, pipeline_vars,
                   media_state_vars, media_api_vars, export_pc, export_attempt,
                   is_forum, forum_response, export_topics, topic_idx,
                   current_topic_id, processed_topics, chat_size, fetched, filter_log,
                   render_log, saved, export_result, link_vars>>

RetryNext ==
    \/ CallFunc
    \/ WrapperStep
    \/ SleepEnds

RetrySpec == RetryInit /\ [][RetryNext]_vars

\* ================================================================ claims
\* ids of the messages of a dict's lists, and of a list
DictIds(d) == UNION {{d[i].val[j].id : j \in 1..Len(d[i].val)} : i \in 1..Len(d)}

SeqIds(ms) == {ms[i].id : i \in 1..Len(ms)}

\* _filter_grouped_messages has just returned (its output is not written again)
FilterDone == pc = "empty" \/ (pc = "text_pass" /\ item_idx = 0)

\* C1: after filtering, an album of grouped_messages is a key of filtered_grouped
\* iff one of its members satisfies should_include_raw_message; a kept album is
\* there with all its members, and no member of a rejected album is in the output
\* (filtered_grouped or filtered_single).
C1_AlbumKeptIffAnyMemberAdmitted ==
    FilterDone =>
        \A i \in 1..Len(grouped_messages) :
            LET album == grouped_messages[i]
                admitted == \E j \in 1..Len(album.val) :
                                should_include_raw_message(album.val[j])
            IN /\ (album.key \in DictKeys(filtered_grouped)) <=> admitted
               /\ admitted => DictGet(filtered_grouped, album.key) = album.val
               /\ ~admitted =>
                     \A j \in 1..Len(album.val) :
                         album.val[j].id \notin DictIds(filtered_grouped)
                                                 \cup SeqIds(filtered_single)

\* an album was kept although one of its members fails the filter
C1_Witness ==
    /\ FilterDone
    /\ \E i \in 1..Len(filtered_grouped) :
          /\ Len(filtered_grouped[i].val) >= 2
          /\ \E j \in 1..Len(filtered_grouped[i].val) :
                ~should_include_raw_message(filtered_grouped[i].val[j])

\* C2: a message with an action marker is admitted by should_include_raw_message
\* for every include set, exclude set, case flag and text.
C2_ServiceAlwaysAdmitted ==
    (filter_result # <<>> /\ filter_message.action) => filter_result[1] = TRUE

\* the body matches sub under the configured case sensitivity
MatchesUnderCase(sub, body) ==
    IF config.filter_case_sensitive THEN IsSubstring(sub, body)
    ELSE IsSubstring(Lower(sub), Lower(body))

\* a service message whose text matches an exclude substring was admitted
C2_Witness ==
    /\ filter_result = <<TRUE>>
    /\ filter_message.action
    /\ filter_message.message # <<>>
    /\ \E sub \in config.filter_exclude_substrings :
          MatchesUnderCase(sub, filter_message.message)

\* C3: a non-service message with a text body is admitted iff (the include set is
\* empty or the body contains an include substring) and the body contains no
\* exclude substring, under the configured case sensitivity.
C3_TextAdmittedIffIncludeAndNotExclude ==
    (filter_result # <<>> /\ ~filter_message.action /\ filter_message.message # <<>>) =>
        (filter_result[1] <=>
            /\ \/ config.filter_include_substrings = {}
               \/ \E sub \in config.filter_include_substrings :
                      MatchesUnderCase(sub, filter_message.message)
            /\ ~\E sub \in config.filter_exclude_substrings :
                      MatchesUnderCase(sub, filter_message.message))

\* a body that matches an include and an exclude substring, by case folding only,
\* was rejected
C3_Witness ==
    /\ filter_result = <<FALSE>>
    /\ ~filter_message.action
    /\ ~config.filter_case_sensitive
    /\ \E sub \in config.filter_include_substrings :
          /\ MatchesUnderCase(sub, filter_message.message)
          /\ ~IsSubstring(sub, filter_message.message)
    /\ \E sub \in config.filter_exclude_substrings :
          MatchesUnderCase(sub, filter_message.message)

\* C4: a non-service message without text, with some filter set non-empty, is
\* admitted iff the include set is empty.
C4_TextlessAdmittedIffNoInclude ==
    (/\ filter_result # <<>>
     /\ ~filter_message.action
     /\ filter_message.message = <<>>
     /\ (config.filter_include_substrings # {} \/ config.filter_exclude_substrings # {}))
    => (filter_result[1] <=> config.filter_include_substrings = {})

\* a textless message was rejected with include and exclude sets both present
C4_Witness ==
    /\ filter_result = <<FALSE>>
    /\ ~filter_message.action
    /\ filter_message.message = <<>>
    /\ config.filter_include_substrings # {}
    /\ config.filter_exclude_substrings # {}

\* a textless message was admitted by an exclude-only configuration
C4_WitnessExcludeOnly ==
    /\ filter_result = <<TRUE>>
    /\ ~filter_message.action
    /\ filter_message.message = <<>>
    /\ config.filter_include_substrings = {}
    /\ config.filter_exclude_substrings # {}

\* _group_messages has just returned (its output is not written again)
GroupDone == pc = "filtering"

\* C5: after grouping, every collected message is at exactly one place of the
\* output: in the album keyed by its grouped_id, or in the singles when it has
\* none; the album keys are distinct and the output holds nothing else.
C5_GroupingPartitions ==
    GroupDone =>
        /\ \A i \in 1..Len(all_messages) :
              LET m == all_messages[i]
                  in_albums == {<<a, j>> \in (1..Len(grouped_messages)) \X (1..Len(all_messages)) :
                                   /\ j <= Len(grouped_messages[a].val)
                                   /\ grouped_messages[a].val[j] = m}
                  in_singles == {j \in 1..Len(single_messages) : single_messages[j] = m}
              IN /\ Cardinality(in_albums) + Cardinality(in_singles) = 1
                 /\ m.grouped_id # 0 =>
                       \A <<a, j>> \in in_albums : grouped_messages[a].key = m.grouped_id
                 /\ m.grouped_id = 0 => in_albums = {}
                 /\ m.grouped_id # 0 => in_singles = {}
        /\ \A a, b \in 1..Len(grouped_messages) :
              grouped_messages[a].key = grouped_messages[b].key => a = b
        /\ DictIds(grouped_messages) \cup SeqIds(single_messages) \subseteq SeqIds(all_messages)

\* two albums and a single came out of the grouping
C5_Witness ==
    /\ GroupDone
    /\ Len(grouped_messages) = 2
    /\ Len(single_messages) >= 1

TextPassDone ==
    \/ pc \in {"batch_loop", "gather", "done"}
    \/ pc = "text_pass" /\ item_idx = Len(all_items)

\* the DisplayRecords of the run's topic
Records == IF DefaultTopicId \in DOMAIN topics THEN topics[DefaultTopicId].messages ELSE <<>>

\* ids of the collected messages that the filter left out
ExcludedIds ==
    SeqIds(all_messages) \ (DictIds(filtered_grouped) \cup SeqIds(filtered_single))

\* C6: after the text pass the topic holds one record per included album and one
\* per included single, and none for an excluded message.
C6_OneRecordPerAlbumOrSingle ==
    TextPassDone =>
        /\ Len(Records) = Len(filtered_grouped) + Len(filtered_single)
        /\ \A a \in 1..Len(filtered_grouped) :
              Cardinality({i \in 1..Len(Records) :
                              Records[i].id \in SeqIds(filtered_grouped[a].val)}) = 1
        /\ \A j \in 1..Len(filtered_single) :
              Cardinality({i \in 1..Len(Records) :
                              Records[i].id = filtered_single[j].id}) = 1
        /\ \A i \in 1..Len(Records) : Records[i].id \notin ExcludedIds

\* one record stands for an included album of two while a single was excluded
C6_Witness ==
    /\ TextPassDone
    /\ Len(Records) = 1
    /\ \E a \in 1..Len(filtered_grouped) : Len(filtered_grouped[a].val) = 2
    /\ \E m \in SeqIds(single_messages) : m \in ExcludedIds

\* the raw message ids a record stands for: the members of the included album
\* whose first message gave the record its id, else the single message itself
RepresentedIds(r) ==
    IF \E a \in 1..Len(filtered_grouped) : filtered_grouped[a].val[1].id = r.id
    THEN SeqIds(filtered_grouped[CHOOSE a \in 1..Len(filtered_grouped) :
                                     filtered_grouped[a].val[1].id = r.id].val)
    ELSE {r.id}

IsAlbumRecord(r) ==
    \E a \in 1..Len(filtered_grouped) : filtered_grouped[a].val[1].id = r.id

SeqToSet(s) == {s[i] : i \in 1..Len(s)}

\* C7 as stated: every record's grouped_message_ids is the set of the raw ids it
\* represents, its own id for a single message.
C7_MemberIdsEqualRepresented ==
    \A i \in 1..Len(Records) :
        SeqToSet(Records[i].grouped_message_ids) = RepresentedIds(Records[i])

\* C7 amended: an album's record lists all member ids; a single's record has an
\* empty grouped_message_ids and stands for its own id; in both cases the id
\* together with grouped_message_ids is the set of represented raw ids.
C7_MemberIdsOfAlbumsOnly ==
    \A i \in 1..Len(Records) :
        LET r == Records[i] IN
        /\ IsAlbumRecord(r) => SeqToSet(r.grouped_message_ids) = RepresentedIds(r)
        /\ ~IsAlbumRecord(r) => r.grouped_message_ids = <<>>
        /\ {r.id} \cup SeqToSet(r.grouped_message_ids) = RepresentedIds(r)

\* the topic holds the record of a two-member album and the record of a single
C7_Witness ==
    /\ TextPassDone
    /\ \E i, j \in 1..Len(Records) :
          /\ IsAlbumRecord(Records[i])
          /\ Len(Records[i].grouped_message_ids) = 2
          /\ ~IsAlbumRecord(Records[j])
          /\ Records[j].grouped_message_ids = <<>>

RECURSIVE ExpectedContent(_, _, _)
\* html_content after the media HTML of the tasks that succeeded for one of ids
\* is appended in task order, "<br>" first when the content is not empty
ExpectedContent(content, tasks, ids) ==
    IF tasks = <<>> THEN content
    ELSE LET t == Head(tasks)
             next == IF t.result = "html" /\ t.msg_id \in ids
                     THEN (IF content # <<>> THEN content \o <<BR>> ELSE content)
                          \o _generate_media_html(t.msg_id)
                     ELSE content
         IN ExpectedContent(next, Tail(tasks), ids)

Succeeded(id) ==
    \E k \in 1..Len(media_tasks) :
        media_tasks[k].msg_id = id /\ media_tasks[k].result = "html"

\* the texts and the media of an album, members in ascending id order
AlbumParts(members) ==
    LET sorted == StableSort(members, Ids(members))
        texts == SelectSeq([i \in 1..Len(sorted) |-> render_message(sorted[i])],
                           LAMBDA t : t # <<>>)
        succeeded == SelectSeq(sorted, LAMBDA m : Succeeded(m.id))
    IN texts \o [i \in 1..Len(succeeded) |-> _generate_media_html(succeeded[i].id)]

C9_WitnessOneBatch ==
    /\ pc = "done"
    /\ config.max_concurrent_downloads = 2
    /\ \E a \in 1..Len(filtered_grouped) :
          LET members == filtered_grouped[a].val IN
          /\ Len(members) >= 2
          /\ Succeeded(members[1].id) /\ Succeeded(members[2].id)

\* the chunk of the j-th media message
ChunkOf(j) == (j - 1) \div config.max_concurrent_downloads

\* C10: tasks are created for media_messages in order, a whole chunk of
\* max_concurrent_downloads at a time, and a task of a later chunk exists only
\* when every task of the earlier chunks is done.
C10_BatchBarrier ==
    /\ Len(media_tasks) <= Len(media_messages)
    /\ \A j \in 1..Len(media_tasks) : media_tasks[j].msg_id = media_messages[j].id
    /\ \/ Len(media_tasks) = Len(media_messages)
       \/ Len(media_tasks) % config.max_concurrent_downloads = 0
    /\ \A i, j \in 1..Len(media_tasks) :
          ChunkOf(i) < ChunkOf(j) => media_tasks[i].state = "done"

\* a task of the second chunk is downloading after a first chunk of two tasks,
\* one of which ended without media
C10_Witness ==
    /\ config.max_concurrent_downloads = 2
    /\ Len(media_tasks) = 3
    /\ media_tasks[3].state = "downloading"
    /\ media_tasks[1].result = "None"
    /\ media_tasks[2].result = "html"

\* the downloads in flight: tasks inside `async with self.download_semaphore`
InFlight == Cardinality({k \in 1..Len(media_tasks) : media_tasks[k].state = "downloading"})

\* C11: at every moment the number of downloads in flight is at most
\* max_concurrent_downloads (each holds one permit of the semaphore), and once a
\* batch has been joined, whatever its downloads returned, all permits are free.
C11_DownloadsBounded ==
    /\ InFlight <= config.max_concurrent_downloads
    /\ download_semaphore = config.max_concurrent_downloads - InFlight
    /\ (pc \in {"batch_loop", "done"}) =>
          download_semaphore = config.max_concurrent_downloads

\* two downloads were in flight at once
C11_WitnessFull ==
    /\ pc = "gather"
    /\ InFlight = 2
    /\ download_semaphore = 0

\* a batch of two was joined, one download had given no media, and the next
\* batch starts with all permits free
C11_Witness ==
    /\ pc = "batch_loop"
    /\ batch_start = 2
    /\ download_semaphore = 2
    /\ \E k \in 1..Len(media_tasks) : media_tasks[k].result = "None"

\* C12 as stated: a process_media call in which a download failed goes on to the
\* next attempt, sleeping RETRY_DELAY * 2^k after the k-th failure; it ends
\* without media only when RETRY_ATTEMPTS downloads have failed.
C12_FailedDownloadRetried ==
    \A i \in 1..Len(media_log) :
        LET call == media_log[i] IN
        /\ call.attempts <= RETRY_ATTEMPTS
        /\ call.slept = [k \in 1..(call.attempts - 1) |-> RETRY_DELAY * Pow2(k - 1)]
        /\ (call.failed > 0 /\ call.result # "html") =>
               (call.attempts = RETRY_ATTEMPTS /\ call.failed = RETRY_ATTEMPTS)

\* C13 as stated: once the media of a message has been downloaded, processing
\* the same message again invokes no download and returns no media, without error.
C13_SecondProcessingSkipped ==
    \A i, j \in 1..Len(media_log) :
        (i < j /\ media_log[i].msg_id = media_log[j].msg_id
               /\ media_log[i].result = "html") =>
            (media_log[j].downloads = 0 /\ media_log[j].result = "None")

\* ---------------------------------------------------------------- C14
\* the tasks whose download raised
FailedTasks == {k \in 1..Len(media_tasks) : media_tasks[k].failed}

\* some record of the messages holds the media HTML of msg_id
HasMediaOf(messages, msg_id) ==
    \E i \in 1..Len(messages) :
        /\ Matches(messages[i], msg_id)
        /\ InSeq(_generate_media_html(msg_id)[1], messages[i].html_content)

\* C14: a download that raises is isolated.  When the media pass of a topic is
\* over, every media message has had its task, in batch order, whatever the
\* tasks before it did, and every task that produced media has it merged into
\* its record; and a run in which a download raised is never ended by that
\* download: an unsuccessful result names an exception of another stage.
C14_DownloadFailureIsolated ==
    /\ (export_pc = "process_messages" /\ pc = "done") =>
           /\ Len(media_tasks) = Len(media_messages)
           /\ \A k \in 1..Len(media_tasks) :
                  /\ media_tasks[k].msg_id = media_messages[k].id
                  /\ media_tasks[k].result = "html" =>
                         HasMediaOf(topics[current_topic_id].messages,
                                    media_tasks[k].msg_id)
    /\ (FailedTasks # {} /\ export_result # <<>> /\ ~export_result[1].success) =>
           /\ export_result[1].error[1] # "MediaDownloadError"
           /\ export_result[1].error[2] \in
                  {"collecting", "filtering", "text_pass", "render", "save", "finish"}
    /\ export_pc # "raised"

\* a download raised, a later task of the run produced media that is in its
\* record, and export_chat returned success
C14_Witness ==
    /\ export_pc = "returned"
    /\ export_result[1].success
    /\ ~is_forum
    /\ \E k \in FailedTasks, j \in 1..Len(media_tasks) :
          /\ k < j
          /\ media_tasks[j].result = "html"
          /\ HasMediaOf(DictGet(export_topics, DefaultTopicId).messages,
                        media_tasks[j].msg_id)

\* the same with the later task in a later batch
C14_WitnessLaterBatch ==
    /\ C14_Witness
    /\ config.max_concurrent_downloads = 1

\* the same with the later task in the batch of the failed one
C14_WitnessSameBatch ==
    /\ C14_Witness
    /\ config.max_concurrent_downloads = 2

\* ---------------------------------------------------------------- C15
\* no filtering of the run so far has admitted a message
NothingAdmitted == \A i \in 1..Len(filter_log) : filter_log[i] = 0

\* C15: as long as the filter has admitted no message of any topic, no record
\* exists in any topic map, the text pass and the media pass are never entered
\* and no download is invoked; only render_empty is called, exactly once before
\* the file is saved, and a result that reports success reports 0 messages.
C15_NothingAdmittedEmptyExport ==
    NothingAdmitted =>
        /\ \A t \in DOMAIN topics : topics[t].messages = <<>>
        /\ TotalMessages(processed_topics) = 0
        /\ TotalMessages(export_topics) = 0
        /\ pc \notin {"text_pass", "batch_loop", "done"}
        /\ media_tasks = <<>>
        /\ _global_media_counter = 0
        /\ downloaded_files = {}
        /\ \A i \in 1..Len(render_log) : render_log[i].method = "render_empty"
        /\ export_pc \in {"save", "finish"} => Len(render_log) = 1
        /\ (export_result # <<>> /\ export_result[1].success) =>
               /\ export_result[1].total_messages = 0
               /\ export_result[1].media_count = 0
               /\ Len(render_log) = 1
               /\ saved = <<[method |-> "render_empty", topics |-> <<>>]>>

\* messages were collected, the filter admitted none, and export_chat returned
\* success
C15_Witness ==
    /\ export_pc = "returned"
    /\ export_result[1].success
    /\ export_result[1].total_messages = 0
    /\ NothingAdmitted
    /\ filter_log # <<>>
    /\ chat_size > 0

\* the early return with a message with media among the rejected ones
C15_WitnessMediaRejected ==
    /\ export_pc = "process_messages"
    /\ pc = "empty"
    /\ NothingAdmitted
    /\ \E i \in 1..Len(all_messages) : all_messages[i].media # "none"

\* the same in a forum with two processed topics
C15_WitnessForum ==
    /\ export_pc = "returned"
    /\ export_result[1].success
    /\ NothingAdmitted
    /\ Len(filter_log) = 2
    /\ chat_size = 2

\* ---------------------------------------------------------------- C16
\* the topics of the forum's response that the allow/deny list rejects
RejectedTopics ==
    {forum_response[i] : i \in
        {j \in 1..Len(forum_response) :
            LET title == Lower(ForumTitle(forum_response[j])) IN
            \/ \E e \in config.excluded_topics : title = Lower(e)
            \/ /\ config.included_topics # {}
               /\ \A a \in config.included_topics : title # Lower(a)}}

\* the topic ids of the records of a topics dict
RecordTopicIds(d) ==
    UNION {{d[i].val.messages[j].topic_id : j \in 1..Len(d[i].val.messages)} :
             i \in 1..Len(d)}

\* C16: in a forum, a topic rejected by the allow/deny list is never the
\* argument of iter_messages, no record with its topic id exists in any topic
\* map at any time, and it is a key of no topic map, the final one included.
C16_RejectedTopicNeverProcessed ==
    is_forum =>
        \A t \in RejectedTopics :
            /\ t \notin fetched
            /\ t # current_topic_id
            /\ t \notin DOMAIN topics
            /\ t \notin DictKeys(export_topics)
            /\ t \notin DictKeys(processed_topics)
            /\ t \notin RecordTopicIds(export_topics) \cup RecordTopicIds(processed_topics)
            /\ \A k \in DOMAIN topics :
                   \A j \in 1..Len(topics[k].messages) : topics[k].messages[j].topic_id # t
            /\ \A i \in 1..Len(render_log) :
                   \A j \in 1..Len(render_log[i].topics) : render_log[i].topics[j].id # t

\* a forum with a rejected topic and an exported one, after a successful run
C16_Witness ==
    /\ is_forum
    /\ RejectedTopics # {}
    /\ export_pc = "returned"
    /\ export_result[1].success
    /\ export_result[1].total_messages > 0

\* the topic is rejected by the deny list, its title differing in case
C16_WitnessExcluded ==
    /\ C16_Witness
    /\ config.included_topics = {}

\* the topic is rejected for not being on the allow list
C16_WitnessNotIncluded ==
    /\ C16_Witness
    /\ config.excluded_topics = {}

\* ---------------------------------------------------------------- C17
\* the topic lists HTMLRenderer.render has handed to the template
RenderedLists ==
    {render_log[i].topics : i \in {j \in 1..Len(render_log) :
                                      render_log[j].method = "render"}}

\* C17: in every topic list render hands to the template, the records of each
\* topic are in strictly descending id order.
C17_RecordsNewestFirst ==
    \A rendered \in RenderedLists :
        \A i \in 1..Len(rendered) :
            \A j \in 1..(Len(rendered[i].messages) - 1) :
                rendered[i].messages[j].id > rendered[i].messages[j + 1].id

\* render was given a topic with two records and has handed them on
C17_Witness ==
    /\ export_pc = "save"
    /\ \E rendered \in RenderedLists :
          \E i \in 1..Len(rendered) : Len(rendered[i].messages) = 2

\* the state render is called in: the records were appended oldest first
C17_WitnessAppendedOldestFirst ==
    /\ export_pc = "render"
    /\ \E i \in 1..Len(export_topics) :
          /\ Len(export_topics[i].val.messages) = 2
          /\ export_topics[i].val.messages[1].id < export_topics[i].val.messages[2].id

\* ---------------------------------------------------------------- C18
\* C18: the template is given only topics with records, in strictly ascending
\* topic id order; render is called only when the topic map holds a record and
\* render_empty only when it holds none; no run calls the renderer twice, and
\* a successful run has called it exactly once.
C18_OnlyNonEmptyTopicsRendered ==
    /\ \A rendered \in RenderedLists :
          /\ rendered # <<>>
          /\ \A i \in 1..Len(rendered) : rendered[i].messages # <<>>
          /\ \A i \in 1..(Len(rendered) - 1) : rendered[i].id < rendered[i + 1].id
    /\ Len(render_log) <= 1
    /\ export_pc \in {"save", "finish"} =>
          /\ Len(render_log) = 1
          /\ render_log[1].method =
                IF TotalMessages(export_topics) > 0 THEN "render" ELSE "render_empty"
          /\ render_log[1].method = "render" =>
                {render_log[1].topics[i].id : i \in 1..Len(render_log[1].topics)}
                   = {export_topics[i].key : i \in
                         {j \in 1..Len(export_topics) :
                             export_topics[j].val.messages # <<>>}}
    /\ (export_result # <<>> /\ export_result[1].success) =>
          /\ Len(render_log) = 1
          /\ render_log[1].method =
                IF export_result[1].total_messages > 0 THEN "render" ELSE "render_empty"

\* a forum whose final map holds a topic with records and a topic whose
\* messages were all filtered out, after render
C18_Witness ==
    /\ export_pc = "save"
    /\ is_forum
    /\ Len(export_topics) = 2
    /\ filter_log = <<0, 1>> \/ filter_log = <<1, 0>>
    /\ chat_size = 2
    /\ render_log[1].method = "render"

\* two topics with records, loaded in descending id order, after render
C18_WitnessOrder ==
    /\ export_pc = "save"
    /\ forum_response = <<2, 1>>
    /\ Len(render_log[1].topics) = 2

\* ---------------------------------------------------------------- C19
\* the stages of export_chat a step of which can raise
RaisingStages ==
    {"setup", "connect", "resolve", "load_topics", "collecting", "filtering",
     "text_pass", "render", "save", "finish"}

\* the stage of the current state, the two retried calls included
StageNow == IF export_pc \in {"resolve", "load_topics"} THEN export_pc ELSE Stage

\* the unsuccessful result for an exception e
FailureOf(e) ==
    [success |-> FALSE, total_messages |-> 0, total_topics |-> 0, media_count |-> 0,
     error |-> e]

\* no exception has left export_chat: it was neither raised to the caller nor
\* seen by the retry wrapper, and a returned run has its result
NothingRaised ==
    /\ export_pc # "raised"
    /\ export_attempt = 0
    /\ export_pc = "returned" => Len(export_result) = 1
    /\ \A i \in 1..Len(export_result) :
          ~export_result[i].success =>
              \E stage \in RaisingStages :
                  export_result[i] = FailureOf(ExceptionAt(stage))

\* a run that ends anywhere but at its last statement ends with the
\* unsuccessful result for the exception of the stage it was in
EndsWithFailureResult ==
    (export_pc' = "returned" /\ export_pc # "returned"
         /\ ~(export_pc = "finish" /\ export_result'[1].success))
        => export_result' = <<FailureOf(ExceptionAt(StageNow))>>

\* C19: export_chat never raises to its caller.  An exception raised in
\* directory setup, connection, chat resolution, topic loading, collecting,
\* filtering, the text pass, rendering, saving or the final copy ends the run
\* with an ExportResult of success = FALSE, the exception as error and all
\* counts 0.
C19_ExportChatNeverRaises ==
    []NothingRaised /\ [][EndsWithFailureResult]_vars

\* a run ended by an exception of the text pass of a topic after files were
\* downloaded: the result still counts nothing
C19_Witness ==
    /\ export_pc = "returned"
    /\ export_result = <<FailureOf(ExceptionAt("text_pass"))>>
    /\ downloaded_files # {}

\* a run ended by chat resolution failing on each of its attempts
C19_WitnessResolve ==
    /\ export_pc = "returned"
    /\ export_result = <<FailureOf(ExceptionAt("resolve"))>>

\* ---------------------------------------------------------------- C20
\* the stages of process_messages_streaming before the media pass
PipelineStages == {"collecting", "filtering", "text_pass"}

\* a result that reports an exception of a pipeline stage belongs to a run
\* that rendered nothing and wrote no file
FailedPipelineWroteNothing ==
    \A i \in 1..Len(export_result) :
        (~export_result[i].success /\ export_result[i].error[2] \in PipelineStages) =>
            /\ saved = <<>>
            /\ render_log = <<>>
            /\ export_pc = "returned"

\* the processing of a topic is left before its media pass only with the
\* unsuccessful result for the exception, and without a file
PipelineExceptionEndsRun ==
    (export_pc = "process_messages" /\ pc \in PipelineStages
         /\ export_pc' # "process_messages")
        => /\ export_pc' = "returned"
           /\ export_result' = <<FailureOf(ExceptionAt(pc))>>
           /\ saved' = <<>>

\* C20: an exception in collecting, filtering or the text pass of any topic
\* ends the run: save_export is not invoked in that run, and the result is
\* success = FALSE with the exception as error.
C20_PipelineExceptionWritesNoFile ==
    []FailedPipelineWroteNothing /\ [][PipelineExceptionEndsRun]_vars

\* the text pass of the second topic of a forum raised after the first topic
\* was processed with records and a download
C20_Witness ==
    /\ export_pc = "returned"
    /\ export_result = <<FailureOf(ExceptionAt("text_pass"))>>
    /\ is_forum
    /\ Cardinality(fetched) = 2
    /\ filter_log = <<1, 1>>
    /\ downloaded_files # {}
    /\ saved = <<>>

\* ---------------------------------------------------------------- C21
\* the position of a stage of process_messages_streaming in the run
StageRank(p) ==
    CASE p = "collecting" -> 0
      [] p = "filtering" -> 1
      [] p = "text_pass" -> 2
      [] p \in {"batch_loop", "gather"} -> 3
      [] OTHER -> 4

\* what each stage finds done: grouping and all later stages the drained
\* iterator, the media pass a record for every included album and single
StagesInOrder ==
    /\ (pc # "collecting" \/ grouped_messages # <<>> \/ single_messages # <<>>) =>
           messages_iter = 0
    /\ pc = "collecting" =>
           /\ filtered_grouped = <<>> /\ filtered_single = <<>> /\ all_items = <<>>
           /\ Records = <<>>
    /\ pc \in {"collecting", "filtering"} => item_idx = 0 /\ Records = <<>>
    /\ (pc \in {"batch_loop", "gather", "done"} \/ media_messages # <<>>
           \/ media_tasks # <<>> \/ _global_media_counter > 0) =>
           /\ item_idx = Len(all_items)
           /\ Len(Records) = Len(filtered_grouped) + Len(filtered_single)

\* no step goes back to an earlier stage, and the text loop never runs once
\* the media pass has begun
NoStepBack ==
    /\ StageRank(pc') >= StageRank(pc)
    /\ all_messages' # all_messages => pc = "collecting" /\ pc' = "collecting"
    /\ StageRank(pc) >= 3 =>
           /\ Len(Records') = Len(Records)
           /\ item_idx' = item_idx

\* C21: the stages of a pipeline run happen in the order collect, group,
\* filter, text pass, media pass with no step back; the iterator is drained
\* before grouping starts, and no download task exists until every included
\* album and single has its record.
C21_StagesInOrder ==
    []StagesInOrder /\ [][NoStepBack]_vars

\* the first download task of a run with an album and a single included
C21_Witness ==
    /\ pc = "gather"
    /\ Len(media_tasks) = 1
    /\ media_tasks[1].state = "downloading"
    /\ filtered_grouped # <<>>
    /\ filtered_single # <<>>
    /\ Len(Records) = 2

\* ---------------------------------------------------------------- C22
\* load_forum_topics has returned for a chat that is no forum and the run has
\* not been ended by an exception
FlatChatLoaded ==
    /\ ~is_forum
    /\ \/ export_pc \in {"topics_loop", "process_messages", "render", "save", "finish"}
       \/ export_pc = "returned" /\ export_result[1].success

\* C22: in a chat that is no forum the topic map is one topic, id 1, titled
\* "General", in the orchestrator and inside the pipeline; every record is in
\* topic 1 and carries topic_id 1, and the result counts one topic.
C22_FlatChatSingleGeneralTopic ==
    FlatChatLoaded =>
        /\ Len(export_topics) = 1
        /\ export_topics[1].key = 1
        /\ export_topics[1].val.id = 1
        /\ export_topics[1].val.title = <<"General">>
        /\ RecordTopicIds(export_topics) \subseteq {1}
        /\ processed_topics = <<>>
        /\ export_pc = "process_messages" =>
               /\ DOMAIN topics = {1}
               /\ current_topic_id = 1
               /\ topics[1].id = 1
               /\ topics[1].title = <<"General">>
               /\ \A j \in 1..Len(topics[1].messages) : topics[1].messages[j].topic_id = 1
               /\ Len(topics[1].messages) =
                      IF pc \in {"batch_loop", "done"} THEN Len(all_items) ELSE 0
        /\ fetched \subseteq {0}
        /\ export_pc = "returned" => export_result[1].total_topics = 1

\* a flat chat with two records, after a successful run
C22_Witness ==
    /\ ~is_forum
    /\ export_pc = "returned"
    /\ export_result[1].success
    /\ Len(export_topics[1].val.messages) = 2

\* ---------------------------------------------------------------- C23
\* C23: with --skip-media (the seven media types in the skip set) the download
\* is invoked for no message, whatever media it carries, and no file is
\* recorded as downloaded.
C23_SkipMediaDownloadsNothing ==
    config.skip_media_types = MediaTypes =>
        /\ \A i \in 1..Len(media_log) : media_log[i].downloads = 0
        /\ media_messages = <<>>
        /\ _global_media_counter = 0
        /\ downloaded_files = {}

\* ---------------------------------------------------------------- C27
\* the message of the run and its record
TheMessage == all_messages[1]

TheRecord == topics[DefaultTopicId].messages[1]

\* C27: the record of a message is a reply, with the target id, iff the
\* message has a reply header with a target id and, when the header is flagged
\* as a forum-topic reply, with a top-level id too; otherwise it is no reply
\* and has no target.
C27_ReplyInfo ==
    all_messages # <<>> =>
        LET reply_to == TheMessage.reply_to
            has_target == reply_to.kind = "message" /\ reply_to.reply_to_msg_id # <<>>
            expected == has_target
                        /\ (reply_to.forum_topic => reply_to.reply_to_top_id # <<>>)
        IN /\ TheRecord.is_reply = expected
           /\ TheRecord.reply_to_msg_id =
                 IF expected THEN reply_to.reply_to_msg_id ELSE <<>>

\* a forum-topic reply with target and top-level id: a reply
C27_Witness ==
    /\ all_messages # <<>>
    /\ TheMessage.reply_to.forum_topic
    /\ TheMessage.reply_to.reply_to_top_id # <<>>
    /\ TheRecord.is_reply
    /\ TheRecord.reply_to_msg_id = <<1>>

\* a forum-topic reply with a target but no top-level id: no reply
C27_WitnessNoTopId ==
    /\ all_messages # <<>>
    /\ TheMessage.reply_to.forum_topic
    /\ TheMessage.reply_to.reply_to_msg_id # <<>>
    /\ TheMessage.reply_to.reply_to_top_id = <<>>
    /\ ~TheRecord.is_reply

\* the forum flag unset: the target alone makes the reply
C27_WitnessFlat ==
    /\ all_messages # <<>>
    /\ ~TheMessage.reply_to.forum_topic
    /\ TheMessage.reply_to.reply_to_top_id = <<>>
    /\ TheRecord.is_reply

\* ---------------------------------------------------------------- C28
\* C28: the skip reason of a record is non-empty iff the message has media and
\* its media type is in the skip set or its document is larger than
\* max_file_size_mb * 1024 * 1024 bytes; for a message with media that is
\* exactly when should_skip_media holds, and exactly when the media pass
\* attempts no download for it.
C28_SkipReason ==
    all_messages # <<>> =>
        LET msg == TheMessage
            document_size == IF IsMessageMediaDocument(msg) THEN msg.size ELSE 0
            expected ==
                /\ msg.media # "none"
                /\ \/ _get_media_type(msg) \in config.skip_media_types
                   \/ document_size > config.max_file_size_mb * 1024 * 1024
        IN /\ (TheRecord.skip_reason # <<>>) = expected
           /\ msg.media # "none" =>
                 /\ (TheRecord.skip_reason # <<>>) = should_skip_media(msg)
                 /\ \A i \in 1..Len(media_log) :
                        (TheRecord.skip_reason # <<>>) = (media_log[i].downloads = 0)

\* a document of exactly the limit: no skip reason, and it was downloaded
C28_Witness ==
    /\ all_messages # <<>>
    /\ TheMessage.media = "document"
    /\ TheMessage.size = config.max_file_size_mb * 1024 * 1024
    /\ TheRecord.skip_reason = <<>>
    /\ media_log # <<>>
    /\ media_log[1].downloads = 1

\* a document one byte over the limit: skipped for its size
C28_WitnessOverLimit ==
    /\ all_messages # <<>>
    /\ TheMessage.size = config.max_file_size_mb * 1024 * 1024 + 1
    /\ TheRecord.skip_reason # <<>>
    /\ TheRecord.skip_reason[1] = "size"
    /\ media_log # <<>>
    /\ media_log[1].downloads = 0

\* a photo skipped for its type
C28_WitnessType ==
    /\ all_messages # <<>>
    /\ TheMessage.media = "photo"
    /\ TheRecord.skip_reason = <<"contains", "photo">>
    /\ media_log # <<>>

\* C29: a download task that ends cancelled or failed leaves every record as
\* it was after the text pass: nothing is appended to html_content and nothing
\* is overwritten.
TaskWithoutMedia ==
    /\ media_log # <<>>
    /\ media_messages # <<>>
    /\ media_log[1].result # "html"

C29_TaskWithoutMediaLeavesRecords ==
    TaskWithoutMedia =>
        /\ Len(topics[DefaultTopicId].messages) = 1
        /\ TheRecord.html_content = render_message(TheMessage)

\* the same for the tasks that ended with None or with an Exception
C29_FailedTaskLeavesRecords ==
    (TaskWithoutMedia /\ media_log[1].result # "CancelledError") =>
        /\ Len(topics[DefaultTopicId].messages) = 1
        /\ TheRecord.html_content = render_message(TheMessage)

\* a cancelled task of a message with a text: the TypeError is caught
C29_CancelledWithText ==
    (TaskWithoutMedia /\ media_log[1].result = "CancelledError"
        /\ TheMessage.message # <<>>) =>
        TheRecord.html_content = render_message(TheMessage)

\* C30: downloaded_files is written only after the batch has been joined,
\* never while a download task of the batch is still running.
BatchJoined == \A k \in 1..Len(media_tasks) : media_tasks[k].state = "done"

WrittenAfterJoinOnly == (downloaded_files' # downloaded_files) => BatchJoined

C30_DedupSetTouchedAfterJoinOnly == [][WrittenAfterJoinOnly]_vars

\* ---------------------------------------------------------- link shapes
\* The shape of a link is read off its path, the href up to a "?": the path
\* is cut at every "/" and each piece has to be a number.
FirstIndex(s, c) ==
    IF InSeq(c, s) THEN CHOOSE i \in 1..Len(s) : s[i] = c /\ \A j \in 1..(i - 1) : s[j] # c
    ELSE Len(s) + 1

PathOf(t) == SubSeq(t, 1, FirstIndex(t, "?") - 1)

RECURSIVE Split(_)
Split(s) ==
    IF ~InSeq("/", s) THEN <<s>>
    ELSE <<SubSeq(s, 1, FirstIndex(s, "/") - 1)>>
         \o Split(SubSeq(s, FirstIndex(s, "/") + 1, Len(s)))

Segments(part) == Split(PathOf(part.tail))

\* the number of segments of a link https://t.me/c/..., 0 for anything else
Shape(part) ==
    IF /\ part.kind = "a"
       /\ part.scheme = "https://t.me/c/"
       /\ \A i \in 1..Len(Segments(part)) :
              Digits(Segments(part)[i], 1, Len(Segments(part)[i]))
    THEN Len(Segments(part))
    ELSE 0

\* the values the attribute has in the list
AttrValues(attributes, name) ==
    {attributes[i].value : i \in {j \in 1..Len(attributes) : attributes[j].name = name}}

\* the attributes other than class and the data attributes, in order
PlainAttributes(attributes) ==
    SelectSeq(attributes, LAMBDA a : a.name \notin {"class", "data-msg-id", "data-topic-id"})

TheRenderer == message_renderer[1]

Rendered == transform_calls = 1

IsCurrentChat(part) == int(Segments(part)[1]) = TheRenderer.current_chat_id

\* out is the internal link made of in: the class is merged, the other
\* attributes and the text are kept
InternalLinkOf(in, out) ==
    /\ out.kind = "a"
    /\ out.text = in.text
    /\ PlainAttributes(out.attributes) = PlainAttributes(in.attributes)
    /\ AttrValues(out.attributes, "class") =
          IF HasClass(in.attributes)
          THEN {Append(v, "internal-link") : v \in AttrValues(in.attributes, "class")}
          ELSE {<<"internal-link">>}

\* C24: in a forum a link /c/{chat}/{topic}/{message} of the current chat
\* becomes href "#msg-{message}" with the class internal-link merged into the
\* attributes and with data-msg-id and data-topic-id; a link of another chat
\* is left as it was.
C24_ForumMessageLink ==
    (Rendered /\ TheRenderer.is_forum) =>
        /\ Len(html_text) = Len(msg_text)
        /\ \A i \in 1..Len(msg_text) :
              Shape(msg_text[i]) = 3 =>
                 IF IsCurrentChat(msg_text[i])
                 THEN /\ html_text[i].scheme = "#msg-"
                      /\ html_text[i].tail = Segments(msg_text[i])[3]
                      /\ InternalLinkOf(msg_text[i], html_text[i])
                      /\ AttrValues(html_text[i].attributes, "data-msg-id")
                            = {Segments(msg_text[i])[3]}
                      /\ AttrValues(html_text[i].attributes, "data-topic-id")
                            = {Segments(msg_text[i])[2]}
                 ELSE html_text[i] = msg_text[i]

C24_Witness ==
    /\ Rendered
    /\ TheRenderer.is_forum
    /\ Shape(msg_text[1]) = 3
    /\ IsCurrentChat(msg_text[1])
    /\ HasClass(msg_text[1].attributes)
    /\ html_text[1].scheme = "#msg-"

C24_WitnessNoClass ==
    /\ Rendered
    /\ TheRenderer.is_forum
    /\ Shape(msg_text[1]) = 3
    /\ IsCurrentChat(msg_text[1])
    /\ msg_text[1].attributes = <<>>
    /\ InSeq("?", msg_text[1].tail)
    /\ html_text[1].scheme = "#msg-"

C24_WitnessOtherChat ==
    /\ Rendered
    /\ TheRenderer.is_forum
    /\ Shape(msg_text[1]) = 3
    /\ ~IsCurrentChat(msg_text[1])
    /\ html_text[1] = msg_text[1]
    /\ html_text # msg_text

\* C25: a three-segment link is matched neither by the forum topic pattern
\* nor by the flat-chat pattern and is left untouched in a flat chat; a
\* two-segment link /c/chat/N becomes "#topic-N" only in a forum and "#msg-N"
\* only in a flat chat.
C25_LinkShapesNotMisclassified ==
    Rendered =>
        \A i \in 1..Len(msg_text) :
            /\ Shape(msg_text[i]) = 3 =>
                  /\ FORUM_TOPIC_LINK_PATTERN(msg_text[i]) = {}
                  /\ REGULAR_MESSAGE_LINK_PATTERN(msg_text[i]) = {}
                  /\ html_text[i].scheme # "#topic-"
                  /\ html_text[i].scheme = "#msg-" =>
                        AttrValues(html_text[i].attributes, "data-topic-id") # {}
                  /\ ~TheRenderer.is_forum => html_text[i] = msg_text[i]
            /\ Shape(msg_text[i]) = 2 =>
                  /\ FORUM_MESSAGE_LINK_PATTERN(msg_text[i]) = {}
                  /\ html_text[i].scheme = "#topic-" => TheRenderer.is_forum
                  /\ html_text[i].scheme = "#msg-" => ~TheRenderer.is_forum
                  /\ IsCurrentChat(msg_text[i]) =>
                        /\ html_text[i].scheme =
                              IF TheRenderer.is_forum THEN "#topic-" ELSE "#msg-"
                        /\ html_text[i].tail = Segments(msg_text[i])[2]
                        /\ InternalLinkOf(msg_text[i], html_text[i])
                  /\ ~IsCurrentChat(msg_text[i]) => html_text[i] = msg_text[i]

C25_Witness ==
    /\ Rendered
    /\ ~TheRenderer.is_forum
    /\ Shape(msg_text[1]) = 3
    /\ IsCurrentChat(msg_text[1])
    /\ Len(msg_text) = 2
    /\ html_text[1] = msg_text[1]
    /\ html_text[2].scheme = "#msg-"

C25_WitnessForum ==
    /\ Rendered
    /\ TheRenderer.is_forum
    /\ Shape(msg_text[1]) = 3
    /\ Len(msg_text) = 2
    /\ html_text[1].scheme = "#msg-"
    /\ html_text[2].scheme = "#topic-"

C25_WitnessTwoSegments ==
    /\ Rendered
    /\ Shape(msg_text[1]) = 2
    /\ Len(Segments(msg_text[1])[2]) = 2
    /\ html_text[1].scheme = "#topic-"

\* C26: the rewriter given its own output returns it unchanged, in a forum
\* and in a flat chat.
TransformedAgain == transform_calls = 1 /\ transform_calls' = 2

OutputKept == TransformedAgain => html_text' = html_text

C26_RewriterIdempotent == [][OutputKept]_vars

C26_Witness ==
    /\ transform_calls = 2
    /\ ~TheRenderer.is_forum
    /\ html_text[1].scheme = "#msg-"
    /\ AttrValues(html_text[1].attributes, "class") = {<<"c", "internal-link">>}

C26_WitnessForum ==
    /\ transform_calls = 2
    /\ TheRenderer.is_forum
    /\ Len(html_text) = 2
    /\ html_text[1].scheme = "#msg-"
    /\ html_text[2].scheme = "#topic-"

C26_WitnessExternal ==
    /\ transform_calls = 2
    /\ Shape(html_text[1]) = 2
    /\ html_text = msg_text

\* C31: while the media pass runs, the topic map changes only in the step in
\* which gather has returned: every task created so far is done, no task is
\* created in that step, and the batch loop goes on or ends.
MediaPassRunning == pc \in {"batch_loop", "gather"}

MergedAfterJoinOnly ==
    (MediaPassRunning /\ topics' # topics) =>
        /\ pc = "gather"
        /\ \A k \in 1..Len(media_tasks) : media_tasks[k].state = "done"
        /\ media_tasks' = media_tasks
        /\ pc' \in {"batch_loop", "done"}

C31_RecordsMutatedAfterJoinOnly == [][MergedAfterJoinOnly]_vars

\* media of the first batch has been appended and the next batch is not yet
\* created
C31_Witness ==
    /\ pc = "batch_loop"
    /\ batch_start > 0
    /\ Len(media_tasks) = batch_start
    /\ \E i \in 1..Len(topics[DefaultTopicId].messages) :
          \E j \in 1..Len(topics[DefaultTopicId].messages[i].html_content) :
              topics[DefaultTopicId].messages[i].html_content[j][1] = "media"

\* ---------------------------------------------------------------- C32
\* the order of the stages of export_chat
ExportRank(p) ==
    CASE p = "setup" -> 1
      [] p = "connect" -> 2
      [] p = "resolve" -> 3
      [] p = "load_topics" -> 4
      [] p \in {"topics_loop", "process_messages"} -> 5
      [] p = "render" -> 6
      [] p = "save" -> 7
      [] p = "finish" -> 8
      [] OTHER -> 9

InTopics == export_pc \in {"topics_loop", "process_messages"}

\* no step returns to a stage that was left: export_chat goes forward, the
\* topics loop takes each topic once (a flat chat is processed once), and the
\* pipeline of a topic goes forward
NoStageAgain ==
    /\ ExportRank(export_pc') >= ExportRank(export_pc)
    /\ export_attempt' = export_attempt
    /\ (InTopics /\ InTopics') =>
          /\ topic_idx' >= topic_idx
          /\ (export_pc = "topics_loop" /\ export_pc' = "process_messages") =>
                IF is_forum THEN topic_idx' = topic_idx + 1 ELSE filter_log = <<>>
          /\ (export_pc = "process_messages" /\ export_pc' = "process_messages") =>
                /\ topic_idx' = topic_idx
                /\ StageRank(pc') >= StageRank(pc)
    /\ Len(render_log') > Len(render_log) => render_log = <<>>
    /\ Len(saved') > Len(saved) => saved = <<>>

\* the run has one result: a successful one with the one document that was
\* rendered, by render or by render_empty, and saved, or the unsuccessful one
OneOutcome ==
    /\ export_attempt = 0
    /\ export_pc # "raised"
    /\ InTopics => Len(filter_log) <= (IF is_forum THEN topic_idx ELSE 1)
    /\ export_pc = "returned" =>
          /\ Len(export_result) = 1
          /\ Len(saved) <= 1
          /\ export_result[1].success =>
                /\ Len(render_log) = 1
                /\ saved = render_log
                /\ render_log[1].method \in {"render", "render_empty"}

C32_WitnessEmpty ==
    /\ export_pc = "returned"
    /\ export_result[1].success
    /\ render_log[1].method = "render_empty"

\* a run that succeeded with the rendered document
C32_WitnessRendered ==
    /\ export_pc = "returned"
    /\ export_result[1].success
    /\ render_log[1].method = "render"

\* the final copy failed after the document was saved
C32_WitnessFailedAfterSave ==
    /\ export_pc = "returned"
    /\ ~export_result[1].success
    /\ Len(saved) = 1

\* C33: a wrapper of retry_on_error with the defaults calls the operation at
\* most 3 times and only after failed calls; it returns what the first call
\* that does not raise returned; it sleeps 1 second after the first failed
\* call and 2 seconds after the second; after the third failed call it raises
\* the exception of that call without a sleep.
C33_RetryWithBackoff ==
    /\ Len(retry_calls) <= 3
    /\ \A i \in 1..(Len(retry_calls) - 1) : retry_calls[i].raised
    /\ Len(retry_slept) <= 2
    /\ \A k \in 1..Len(retry_slept) : retry_slept[k] = (IF k = 1 THEN 1 ELSE 2)
    /\ Len(retry_slept) =
          IF retry_pc \in {"idle", "calling", "sleeping"} THEN Len(retry_calls)
          ELSE Len(retry_calls) - 1
    /\ retry_result # <<>> <=> retry_pc \in {"returned", "raised"}
    /\ retry_pc = "returned" =>
          /\ ~retry_calls[Len(retry_calls)].raised
          /\ retry_result = <<retry_calls[Len(retry_calls)]>>
    /\ retry_pc = "raised" =>
          /\ Len(retry_calls) = 3
          /\ retry_calls[3].raised
          /\ retry_result = <<retry_calls[3]>>
          /\ retry_slept = <<1, 2>>

\* the third call failed with another exception than the first two
C33_Witness ==
    /\ retry_pc = "raised"
    /\ retry_func = "resolve_chat"
    /\ retry_calls[1].value = "TelegramAPIError"
    /\ retry_calls[3].value = "ChatResolutionError"

\* the third call returned after sleeps of 1 and 2 seconds
C33_WitnessThirdCall ==
    /\ retry_pc = "returned"
    /\ Len(retry_calls) = 3
    /\ retry_slept = <<1, 2>>

\* the first call returned
C33_WitnessFirstCall ==
    /\ retry_pc = "returned"
    /\ retry_func = "load_forum_topics"
    /\ Len(retry_calls) = 1
    /\ retry_slept = <<>>

\* ---------------------------------------------------------------- C34
\* the raw messages a record stands for
MemberIds(record) ==
    IF record.grouped_message_ids = <<>> THEN {record.id}
    ELSE {record.grouped_message_ids[i] : i \in 1..Len(record.grouped_message_ids)}

\* the timestamp of the lowest-id raw message of a record
PrimaryDate(record) ==
    LET low == CHOOSE id \in MemberIds(record) : \A other \in MemberIds(record) : id <= other
        primary == CHOOSE i \in 1..Len(all_messages) : all_messages[i].id = low
    IN all_messages[primary].date

Chronological ==
    \A i \in 1..(Len(Records) - 1) :
        PrimaryDate(Records[i]) <= PrimaryDate(Records[i + 1])

\* once the text pass is over no step reorders the records
OrderKept == TextPassDone => Ids(Records') = Ids(Records)

\* C34: the records of the topic are in non-decreasing order of the timestamp of
\* their lowest-id message while they are built and until the pipeline hands
\* them on, and no step after the text pass changes their order.
C34_RecordsChronological == []Chronological /\ [][OrderKept]_vars

\* an album collected before an older single is appended after it
C34_Witness ==
    /\ pc = "done"
    /\ Len(Records) = 2
    /\ Records[1].grouped_message_ids = <<>>
    /\ Records[2].grouped_message_ids # <<>>
    /\ PrimaryDate(Records[1]) < PrimaryDate(Records[2])

\* two records of one second are not in id order
C34_WitnessSameSecond ==
    /\ pc = "done"
    /\ Len(Records) = 2
    /\ Records[1].id > Records[2].id
    /\ PrimaryDate(Records[1]) = PrimaryDate(Records[2])

\* ---------------------------------------------------------------- C35
\* C35: in the output of _group_messages every album list holds the messages of
\* the album in ascending id order, although they arrived newest first, and the
\* singles list holds the messages without an album in their arrival order.
C35_AlbumsByIdSinglesAsArrived ==
    GroupDone =>
        /\ \A g \in 1..Len(grouped_messages) :
              LET album == grouped_messages[g].val IN
              /\ \A i \in 1..(Len(album) - 1) : album[i].id < album[i + 1].id
              /\ SeqToSet(album) =
                    {m \in SeqToSet(all_messages) : m.grouped_id = grouped_messages[g].key}
        /\ single_messages = SelectSeq(all_messages, LAMBDA m : m.grouped_id = 0)

\* an album of two messages that arrived around a single, newest first
C35_Witness ==
    /\ GroupDone
    /\ Len(all_messages) = 3
    /\ all_messages[1].grouped_id # 0
    /\ all_messages[2].grouped_id = 0
    /\ all_messages[3].grouped_id = all_messages[1].grouped_id
    /\ grouped_messages[1].val = <<all_messages[3], all_messages[1]>>

\* two singles, kept newest first
C35_WitnessSingles ==
    /\ GroupDone
    /\ Len(single_messages) >= 2
    /\ single_messages[1].id > single_messages[2].id

\* ---------------------------------------------------------------- C36
\* C36: the record of a message is appended to the topic its reply header
\* points at (reply_to_top_id, else reply_to_msg_id, of a forum-topic header),
\* and to topic 1 when the message has no such header.
C36_RoutedByMessageMetadata ==
    all_messages # <<>> =>
        \A t \in DOMAIN topics :
            topics[t].messages # <<>> =>
                /\ t = _get_topic_id(all_messages[1])
                /\ \A i \in 1..Len(topics[t].messages) :
                      topics[t].messages[i].topic_id = _get_topic_id(all_messages[1])

\* the record is appended to the topic process_messages_streaming was called
\* for, which is 1 for a chat whose forum topics could not be loaded
C36_RoutedByArgument ==
    all_messages # <<>> =>
        /\ DOMAIN topics = {DefaultTopicId}
        /\ Len(topics[DefaultTopicId].messages) = 1
        /\ topics[DefaultTopicId].messages[1].topic_id = DefaultTopicId

\* ---------------------------------------------------------------- C37
\* the record of the album, its lowest-id member and its other member
AlbumRecord == topics[DefaultTopicId].messages[1]
LowestMember == all_messages[2]
OtherMember == all_messages[1]

\* C37: the id, date, sender, service flag, reply info, skip reason and
\* reactions of an album's record are those of its lowest-id member; the other
\* member is found in the record's member ids only (and in the content).
C37_AlbumDescribedByLowestMember ==
    all_messages # <<>> =>
        /\ LowestMember.id < OtherMember.id
        /\ Len(topics[DefaultTopicId].messages) = 1
        /\ AlbumRecord.id = LowestMember.id
        /\ AlbumRecord.date = _format_message_date(LowestMember.date)
        /\ AlbumRecord.sender = _format_sender_name(LowestMember.sender)
        /\ AlbumRecord.is_service = LowestMember.action
        /\ AlbumRecord.is_reply = _get_reply_info(LowestMember).is_reply
        /\ AlbumRecord.reply_to_msg_id = _get_reply_info(LowestMember).reply_to_msg_id
        /\ AlbumRecord.skip_reason = _get_skip_reason(LowestMember)
        /\ AlbumRecord.reactions = _extract_reactions(LowestMember)
        /\ AlbumRecord.grouped_message_ids = <<LowestMember.id, OtherMember.id>>

\* the newer member has a skipped photo, is a reply and has a reaction; the
\* record shows none of it
C37_Witness ==
    /\ all_messages # <<>>
    /\ OtherMember.media = "photo"
    /\ should_skip_media(OtherMember)
    /\ OtherMember.reply_to = ReplyToFirst
    /\ OtherMember.reactions # NoReactions
    /\ OtherMember.sender # LowestMember.sender
    /\ LowestMember.media = "none"
    /\ AlbumRecord.skip_reason = <<>>
    /\ ~AlbumRecord.is_reply
    /\ AlbumRecord.reactions = <<>>

\* the text and the downloaded media of the newer member are in the content
C37_WitnessContent ==
    /\ all_messages # <<>>
    /\ LowestMember.message = <<>>
    /\ LowestMember.media = "none"
    /\ OtherMember.message # <<>>
    /\ Len(media_log) = 1
    /\ media_log[1].result = "html"
    /\ Len(AlbumRecord.html_content) = 3

\* ---------------------------------------------------------------- C38
\* a collected message is included: it passes the filter, or it is in an album
\* of which a member passes
IsIncluded(m) ==
    IF m.grouped_id # 0
    THEN \E i \in 1..Len(all_messages) :
            /\ all_messages[i].grouped_id = m.grouped_id
            /\ should_include_raw_message(all_messages[i])
    ELSE should_include_raw_message(m)

\* the media operation is due for a collected message
MediaDue(m) == IsIncluded(m) /\ m.media # "none" /\ ~should_skip_media(m)

\* the tasks created for a message, each a call of process_media
InvocationsFor(m) == {k \in 1..Len(media_tasks) : media_tasks[k].msg_id = m.id}

MediaPassEntered == pc = "text_pass" /\ item_idx = Len(all_items)

InvokedAtMostOnceIfDue ==
    \A i \in 1..Len(all_messages) :
        Cardinality(InvocationsFor(all_messages[i])) <=
            (IF FilterDone \/ TextPassDone
             THEN IF MediaDue(all_messages[i]) THEN 1 ELSE 0
             ELSE 0)

InvokedOnceWhenDone ==
    pc = "done" =>
        /\ \A k \in 1..Len(media_tasks) : media_tasks[k].state = "done"
        /\ \A i \in 1..Len(all_messages) :
              Cardinality(InvocationsFor(all_messages[i])) =
                  (IF MediaDue(all_messages[i]) THEN 1 ELSE 0)

\* C38: once entered, the media pass comes to its end; process_media is never
\* invoked for a message that is excluded or whose media is skipped, nor twice
\* for a message, and at the end it has been invoked once for every included
\* message with media that is not skipped.
C38_MediaPassTerminates ==
    /\ MediaPassEntered ~> (pc = "done")
    /\ []InvokedAtMostOnceIfDue
    /\ []InvokedOnceWhenDone

\* two downloads were made and the photo of an excluded single was left alone
C38_Witness ==
    /\ pc = "done"
    /\ Len(media_tasks) = 2
    /\ \E i \in 1..Len(all_messages) :
          /\ all_messages[i].media = "photo"
          /\ ~IsIncluded(all_messages[i])

\* an included photo that is skipped
C38_WitnessSkipped ==
    /\ pc = "done"
    /\ media_tasks = <<>>
    /\ \E i \in 1..Len(all_messages) :
          /\ all_messages[i].media = "photo"
          /\ IsIncluded(all_messages[i])
          /\ should_skip_media(all_messages[i])

\* the photo of a member of an excluded album
C38_WitnessExcludedAlbum ==
    /\ pc = "done"
    /\ media_tasks # <<>>
    /\ \E i \in 1..Len(all_messages) :
          /\ all_messages[i].media = "photo"
          /\ all_messages[i].grouped_id # 0
          /\ ~IsIncluded(all_messages[i])

\* ---------------------------------------------------------------- C39
IsPrefix(s, t) == Len(s) <= Len(t) /\ SubSeq(t, 1, Len(s)) = s

\* a step leaves a record as it was, or lengthens its content
RecordKept(before, after) ==
    /\ [after EXCEPT !.html_content = before.html_content] = before
    /\ IsPrefix(before.html_content, after.html_content)

OnlyContentGrows ==
    TextPassDone =>
        /\ DOMAIN topics' = DOMAIN topics
        /\ \A t \in DOMAIN topics :
              /\ [topics'[t] EXCEPT !.messages = topics[t].messages] = topics[t]
              /\ Len(topics'[t].messages) = Len(topics[t].messages)
              /\ \A i \in 1..Len(topics[t].messages) :
                    RecordKept(topics[t].messages[i], topics'[t].messages[i])

\* C39: no step of the media pass changes the set of topics, the number or the
\* order of the records of a topic, or a field of a record other than
\* html_content, and a record's content after the step starts with its
\* content before.
C39_MediaPassOnlyExtendsContent == [][OnlyContentGrows]_vars

\* the media of two members was appended to the text of an album's record,
\* beside another record
C39_Witness ==
    /\ pc = "done"
    /\ Len(Records) = 2
    /\ \E i \in 1..2 :
          /\ Len(Records[i].grouped_message_ids) = 2
          /\ Len(Records[i].html_content) >= 5
          /\ Records[i].html_content[1][1] # "media"

\* a record without text has got its media
C39_WitnessNoText ==
    /\ pc = "done"
    /\ \E i \in 1..Len(Records) :
          /\ Records[i].html_content # <<>>
          /\ Records[i].html_content[1][1] = "media"

\* ---------------------------------------------------------------- C40
\* the sequence number in a filename
GlobalIndexOf(filename) == filename[3]

\* a step leaves the counter alone or adds one to it, and a filename it records
\* carries the new value; a call of process_media for a message with media
\* that is not skipped generates a name and so adds one
CounterStep ==
    /\ _global_media_counter' \in {_global_media_counter, _global_media_counter + 1}
    /\ downloaded_files \subseteq downloaded_files'
    /\ \A f \in downloaded_files' \ downloaded_files :
          /\ _global_media_counter' = _global_media_counter + 1
          /\ GlobalIndexOf(f) = _global_media_counter'
    /\ (media_call # <<>> /\ media_call' # media_call) =>
          _global_media_counter' =
              _global_media_counter
              + (IF should_skip_media(media_call[1].msg) THEN 0 ELSE 1)

FilenamesDistinct ==
    /\ \A f \in downloaded_files : GlobalIndexOf(f) \in 1.._global_media_counter
    /\ \A f, g \in downloaded_files : GlobalIndexOf(f) = GlobalIndexOf(g) => f = g

\* C40: the sequence counter of the MediaProcessor goes up by exactly one with
\* every filename generated and never down, so the filenames of a run carry
\* distinct sequence numbers and are distinct, also two of one message.
C40_FilenamesUnique == []FilenamesDistinct /\ [][CounterStep]_vars

\* process_media was called three times for one message: three files
C40_Witness ==
    /\ Len(media_log) = 3
    /\ _global_media_counter = 3
    /\ Cardinality(downloaded_files) = 3
    /\ \A f, g \in downloaded_files : f[2] = g[2]

\* under ExportSpec: the second topic of a forum goes on with the counter of
\* the first
C40_WitnessForum ==
    /\ is_forum
    /\ topic_idx = 2
    /\ Len(media_tasks) = 1
    /\ _global_media_counter = 2
    /\ Cardinality(downloaded_files) = 2

====
